---- MODULE Spec2Model ----
(***************************************************************************)
(* REST-to-gRPC gateway of the ZisK distributed console                    *)
(* (distributed-console/gateway-server.cjs): request validation, the       *)
(* fixed-window rate limiter, the grpcCall promise wrapper, the            *)
(* /api/proof/launch and /api/job/:jobId handlers, and the coordinator     *)
(* process supervisor.                                                     *)
(*                                                                         *)
(* JavaScript strings are modelled as sequences of one-character strings,  *)
(* so that String.includes, RegExp.test and String.replace are computed    *)
(* and not assumed.                                                        *)
(***************************************************************************)
EXTENDS Integers, Sequences, FiniteSets, TLC

----------------------------------------------------------------------------
(* Strings *)

Digits == {"0","1","2","3","4","5","6","7","8","9"}

Lower == {"a","b","c","d","e","f","g","h","i","j","k","l","m",
          "n","o","p","q","r","s","t","u","v","w","x","y","z"}

Upper == {"A","B","C","D","E","F","G","H","I","J","K","L","M",
          "N","O","P","Q","R","S","T","U","V","W","X","Y","Z"}

\* String.prototype.includes
Includes(s, sub) ==
    \E i \in 1..(Len(s) - Len(sub) + 1) : SubSeq(s, i, i + Len(sub) - 1) = sub

\* String.prototype.startsWith
StartsWith(s, pre) ==
    /\ Len(s) >= Len(pre)
    /\ SubSeq(s, 1, Len(pre)) = pre

\* every character of s lies in the class cls, and s is not empty  (^[cls]+$)
AllIn(s, cls) ==
    /\ Len(s) >= 1
    /\ \A i \in 1..Len(s) : s[i] \in cls

DigitChar(d) ==
    CASE d = 0 -> "0" [] d = 1 -> "1" [] d = 2 -> "2" [] d = 3 -> "3"
      [] d = 4 -> "4" [] d = 5 -> "5" [] d = 6 -> "6" [] d = 7 -> "7"
      [] d = 8 -> "8" [] OTHER -> "9"

\* template-literal formatting of a non-negative integer
RECURSIVE NumToStr(_)
NumToStr(n) ==
    IF n < 10 THEN <<DigitChar(n)>>
    ELSE NumToStr(n \div 10) \o <<DigitChar(n % 10)>>

\* number of consecutive digits of s starting at index i   (\d+, greedy)
RECURSIVE DigitRun(_, _)
DigitRun(s, i) ==
    IF i <= Len(s) /\ s[i] \in Digits THEN 1 + DigitRun(s, i + 1) ELSE 0

\* length of the match of /host:\d+/ at the start of s, 0 when there is none
MatchHostPort(s, host) ==
    IF /\ StartsWith(s, host \o <<":">>)
       /\ DigitRun(s, Len(host) + 2) >= 1
    THEN Len(host) + 1 + DigitRun(s, Len(host) + 2)
    ELSE 0

STR_server == <<"s","e","r","v","e","r">>

\* message.replace(/host:\d+/g, 'server')
RECURSIVE ReplaceHostPort(_, _)
ReplaceHostPort(s, host) ==
    LET starts == { i \in 1..Len(s) : MatchHostPort(SubSeq(s, i, Len(s)), host) > 0 }
    IN IF starts = {} THEN s
       ELSE LET i == CHOOSE k \in starts : \A m \in starts : k <= m
                n == MatchHostPort(SubSeq(s, i, Len(s)), host)
            IN SubSeq(s, 1, i - 1) \o STR_server
                 \o ReplaceHostPort(SubSeq(s, i + n, Len(s)), host)

----------------------------------------------------------------------------
(* String literals of gateway-server.cjs *)

STR_timeout       == <<"t","i","m","e","o","u","t">>
STR_timed_out     == <<"t","i","m","e","d"," ","o","u","t">>
STR_proto         == <<"p","r","o","t","o">>
STR_PROTO_PATH    == <<"P","R","O","T","O","_","P","A","T","H">>
STR_localhost     == <<"l","o","c","a","l","h","o","s","t">>
STR_127_0_0_1     == <<"1","2","7",".","0",".","0",".","1">>
STR_CANCELLED     == <<"C","A","N","C","E","L","L","E","D">>
STR_No_workers_available ==
    <<"N","o"," ","w","o","r","k","e","r","s"," ","a","v","a","i","l","a","b","l","e">>
STR_insufficient  == <<"i","n","s","u","f","f","i","c","i","e","n","t">>
STR_not_found     == <<"n","o","t"," ","f","o","u","n","d">>
STR_file          == <<"f","i","l","e">>
STR_dotdot        == <<".",".">>
STR_slashslash    == <<"/","/">>
STR_ellipsis      == <<".",".",".">>
STR_undefined     == <<"u","n","d","e","f","i","n","e","d">>
STR_null          == <<"n","u","l","l">>
STR_true          == <<"t","r","u","e">>
STR_false         == <<"f","a","l","s","e">>

\* "Internal server error"
MSG_Internal ==
    <<"I","n","t","e","r","n","a","l"," ","s","e","r","v","e","r"," ","e","r","r","o","r">>
\* "Resource not found"
MSG_NotFound ==
    <<"R","e","s","o","u","r","c","e"," ","n","o","t"," ","f","o","u","n","d">>
\* "Service unavailable - coordinator may be down"
MSG_Unavailable ==
    <<"S","e","r","v","i","c","e"," ","u","n","a","v","a","i","l","a","b","l","e"," ",
      "-"," ","c","o","o","r","d","i","n","a","t","o","r"," ","m","a","y"," ","b","e",
      " ","d","o","w","n">>
\* "Request timeout - service is overloaded"
MSG_Overloaded ==
    <<"R","e","q","u","e","s","t"," ","t","i","m","e","o","u","t"," ","-"," ","s","e",
      "r","v","i","c","e"," ","i","s"," ","o","v","e","r","l","o","a","d","e","d">>
\* "Invalid request parameters"
MSG_InvalidParams ==
    <<"I","n","v","a","l","i","d"," ","r","e","q","u","e","s","t"," ","p","a","r","a",
      "m","e","t","e","r","s">>
\* "Permission denied"
MSG_PermissionDenied ==
    <<"P","e","r","m","i","s","s","i","o","n"," ","d","e","n","i","e","d">>
\* "Request timeout - service is not responding"
MSG_NotResponding ==
    <<"R","e","q","u","e","s","t"," ","t","i","m","e","o","u","t"," ","-"," ","s","e",
      "r","v","i","c","e"," ","i","s"," ","n","o","t"," ","r","e","s","p","o","n","d",
      "i","n","g">>
\* "Configuration error"
MSG_ConfigError ==
    <<"C","o","n","f","i","g","u","r","a","t","i","o","n"," ","e","r","r","o","r">>
\* "gRPC client not initialized"
MSG_ClientNotInitialized ==
    <<"g","R","P","C"," ","c","l","i","e","n","t"," ","n","o","t"," ","i","n","i","t",
      "i","a","l","i","z","e","d">>

\* method names, as the characters interpolated into error messages
MethodChars(method) ==
    CASE method = "SystemStatus" -> <<"S","y","s","t","e","m","S","t","a","t","u","s">>
      [] method = "JobsList"     -> <<"J","o","b","s","L","i","s","t">>
      [] method = "LaunchProof"  -> <<"L","a","u","n","c","h","P","r","o","o","f">>
      [] method = "JobStatus"    -> <<"J","o","b","S","t","a","t","u","s">>
      [] OTHER                   -> <<"S","t","a","t","u","s","I","n","f","o">>

\* new Error(`gRPC call ${method} timed out after ${timeoutMs}ms`)
TimeoutMessage(method, timeoutMs) ==
    <<"g","R","P","C"," ","c","a","l","l"," ">> \o MethodChars(method)
      \o <<" ","t","i","m","e","d"," ","o","u","t"," ","a","f","t","e","r"," ">>
      \o NumToStr(timeoutMs) \o <<"m","s">>

\* new Error(`gRPC method ${method} does not exist`)
NoSuchMethodMessage(method) ==
    <<"g","R","P","C"," ","m","e","t","h","o","d"," ">> \o MethodChars(method)
      \o <<" ","d","o","e","s"," ","n","o","t"," ","e","x","i","s","t">>

\* `gRPC call failed with code ${status.code}`
StatusCodeMessage(code) ==
    <<"g","R","P","C"," ","c","a","l","l"," ","f","a","i","l","e","d"," ","w","i","t",
      "h"," ","c","o","d","e"," ">> \o NumToStr(code)

----------------------------------------------------------------------------
(* grpc.status codes and configuration *)

OK                == 0
CANCELLED         == 1
INVALID_ARGUMENT  == 3
DEADLINE_EXCEEDED == 4
NOT_FOUND         == 5
PERMISSION_DENIED == 7
INTERNAL          == 13
UNAVAILABLE       == 14

\* error.code of an Error object that carries no code (undefined)
NoCode == -1

MAX_CAPACITY     == 1000
MaxJobIdLen      == 128
MaxPathLen       == 512
MaxMessageLen    == 200

\* an Error object: its code and its message
Err(code, message) == [code |-> code, message |-> message]

\* the absent error (null / undefined)
NoError == [code |-> NoCode, message |-> <<>>]

----------------------------------------------------------------------------
(* sanitizeError *)

sanitizeError(error) ==
    IF error = NoError THEN MSG_Internal
    ELSE IF error.code = NOT_FOUND THEN MSG_NotFound
    ELSE IF error.code = UNAVAILABLE THEN MSG_Unavailable
    ELSE IF error.code = DEADLINE_EXCEEDED THEN MSG_Overloaded
    ELSE IF error.code = INVALID_ARGUMENT THEN MSG_InvalidParams
    ELSE IF error.code = PERMISSION_DENIED THEN MSG_PermissionDenied
    ELSE LET message == error.message IN
         IF message # <<>> /\ Includes(message, STR_timeout) THEN MSG_NotResponding
         ELSE IF Includes(message, STR_PROTO_PATH) \/ Includes(message, STR_proto)
              THEN MSG_ConfigError
         ELSE IF \/ Includes(message, STR_localhost)
                 \/ Includes(message, STR_127_0_0_1)
                 \/ Includes(message, <<":">>)
              THEN ReplaceHostPort(ReplaceHostPort(message, STR_localhost),
                                   STR_127_0_0_1)
         ELSE IF Len(message) > MaxMessageLen
              THEN SubSeq(message, 1, MaxMessageLen) \o STR_ellipsis
         ELSE MSG_Internal

----------------------------------------------------------------------------
(* Validators *)

JobIdChars == Lower \cup Upper \cup Digits \cup {"_", "-"}

PathChars == Lower \cup Upper \cup Digits \cup {"/", ".", "_", "-"}

\* validateJobId(jobId).valid ; a missing value is the empty string
validateJobId(jobId) ==
    /\ jobId # <<>>
    /\ Len(jobId) <= MaxJobIdLen
    /\ AllIn(jobId, JobIdChars)
    /\ jobId \notin {STR_undefined, STR_null, STR_true, STR_false}

\* process.cwd() of the gateway
Cwd == <<"/","s","r","v">>

\* one more segment for the list of segments of a resolved path: empty and "."
\* segments are dropped, ".." drops the segment before it
PushSegment(segs, seg) ==
    IF seg = <<>> \/ seg = <<".">> THEN segs
    ELSE IF seg = STR_dotdot
         THEN IF segs = <<>> THEN segs ELSE SubSeq(segs, 1, Len(segs) - 1)
    ELSE Append(segs, seg)

\* the segments of s between slashes from index i on, normalised
RECURSIVE SplitPath(_, _, _)
SplitPath(s, i, segs) ==
    IF i > Len(s) THEN segs
    ELSE LET stops == { k \in i..Len(s) : s[k] = "/" } \cup { Len(s) + 1 }
             j     == CHOOSE k \in stops : \A m \in stops : k <= m
         IN SplitPath(s, j + 1, PushSegment(segs, SubSeq(s, i, j - 1)))

RECURSIVE JoinPath(_)
JoinPath(segs) ==
    IF segs = <<>> THEN <<>>
    ELSE <<"/">> \o Head(segs) \o JoinPath(Tail(segs))

\* path.resolve(p) on POSIX: absolute, normalised, without a trailing slash
resolve(p) ==
    LET absolute == IF StartsWith(p, <<"/">>) THEN p ELSE Cwd \o <<"/">> \o p
        joined   == JoinPath(SplitPath(absolute, 1, <<>>))
    IN IF joined = <<>> THEN <<"/">> ELSE joined

\* ALLOWED_INPUT_PATHS : null when the variable is not set, otherwise the roots
AllowList(roots) == [configured |-> TRUE, roots |-> roots]
NoAllowList      == [configured |-> FALSE, roots |-> {}]

\* validatePath(pathValue, pathType).valid under a value of ALLOWED_INPUT_PATHS
validatePathUnder(allowed, pathValue, pathType) ==
    /\ pathValue # <<>>
    /\ Len(pathValue) <= MaxPathLen
    /\ ~Includes(pathValue, STR_dotdot)
    /\ ~Includes(pathValue, STR_slashslash)
    /\ AllIn(pathValue, PathChars)
    /\ (StartsWith(pathValue, <<"/">>) => AllIn(Tail(pathValue), PathChars))
    /\ (allowed.configured /\ pathType = "input") =>
          \E allowedPath \in allowed.roots :
              StartsWith(resolve(pathValue), resolve(allowedPath))

\* the gateway modelled runs with ALLOWED_INPUT_PATHS unset
ALLOWED_INPUT_PATHS == NoAllowList

\* validatePath(pathValue, pathType).valid
validatePath(pathValue, pathType) ==
    validatePathUnder(ALLOWED_INPUT_PATHS, pathValue, pathType)

\* a JSON value given as compute_capacity: absent, a number, or a value that
\* Number() turns into NaN
Missing    == [kind |-> "missing", num |-> 0]
Num(n)     == [kind |-> "num", num |-> n]
NotANumber == [kind |-> "nan", num |-> 0]

\* !compute_capacity
Falsy(capacity) == capacity.kind = "missing" \/ (capacity.kind = "num" /\ capacity.num = 0)

\* validateComputeCapacity(capacity).valid
validateComputeCapacity(capacity) ==
    /\ capacity.kind = "num"
    /\ ~(capacity.num < 1)
    /\ ~(capacity.num > MAX_CAPACITY)

----------------------------------------------------------------------------
(* Inputs: the errors and statuses the gRPC transport reports, and the     *)
(* request bodies a client sends                                           *)

\* "14 UNAVAILABLE: No connection established"
ERR_Unavailable == Err(UNAVAILABLE,
    <<"1","4"," ","U","N","A","V","A","I","L","A","B","L","E",":"," ","N","o"," ",
      "c","o","n","n","e","c","t","i","o","n"," ","e","s","t","a","b","l","i","s",
      "h","e","d">>)
\* "4 DEADLINE_EXCEEDED: Deadline exceeded"
ERR_DeadlineExceeded == Err(DEADLINE_EXCEEDED,
    <<"4"," ","D","E","A","D","L","I","N","E","_","E","X","C","E","E","D","E","D",
      ":"," ","D","e","a","d","l","i","n","e"," ","e","x","c","e","e","d","e","d">>)
\* "1 CANCELLED: Cancelled on client"
ERR_Cancelled == Err(CANCELLED,
    <<"1"," ","C","A","N","C","E","L","L","E","D",":"," ","C","a","n","c","e","l",
      "l","e","d"," ","o","n"," ","c","l","i","e","n","t">>)
\* "5 NOT_FOUND: Job not found"
ERR_NotFound == Err(NOT_FOUND,
    <<"5"," ","N","O","T","_","F","O","U","N","D",":"," ","J","o","b"," ","n","o",
      "t"," ","f","o","u","n","d">>)
\* "13 INTERNAL: No workers available"
ERR_Internal == Err(INTERNAL,
    <<"1","3"," ","I","N","T","E","R","N","A","L",":"," ","N","o"," ","w","o","r",
      "k","e","r","s"," ","a","v","a","i","l","a","b","l","e">>)

TransportErrors ==
    {ERR_Unavailable, ERR_DeadlineExceeded, ERR_Cancelled, ERR_NotFound, ERR_Internal}

\* a 'status' event: its code and its details
Status(code, details) == [code |-> code, details |-> details]

TransportStatuses ==
    { Status(OK, <<>>),
      Status(UNAVAILABLE,
             <<"N","o"," ","c","o","n","n","e","c","t","i","o","n"," ","e","s","t",
               "a","b","l","i","s","h","e","d">>),
      Status(DEADLINE_EXCEEDED,
             <<"D","e","a","d","l","i","n","e"," ","e","x","c","e","e","d","e","d">>),
      Status(CANCELLED,
             <<"C","a","n","c","e","l","l","e","d"," ","o","n"," ","c","l","i","e",
               "n","t">>),
      Status(INTERNAL, <<>>) }

\* block ids: "b1", "b2"
B1 == <<"b","1">>
B2 == <<"b","2">>

BlockIds == {B1, B2}

\* "/data/in.bin"
PATH_in == <<"/","d","a","t","a","/","i","n",".","b","i","n">>

Body(b, c, i, e) ==
    [block_id |-> b, compute_capacity |-> c, input_path |-> i, elf_path |-> e]

\* launch bodies that pass validation
ValidBodies ==
    { Body(B1, Num(10), PATH_in, <<>>),
      Body(B2, Num(MAX_CAPACITY), PATH_in, <<"p","r","o","g",".","e","l","f">>) }

\* launch bodies that fail it, one for each check of the handler
InvalidBodies ==
    { Body(<<>>, Num(10), PATH_in, <<>>),
      Body(B1, Missing, PATH_in, <<>>),
      Body(B1, Num(0), PATH_in, <<>>),
      Body(B1, Num(10), <<>>, <<>>),
      Body(<<"b"," ","1">>, Num(10), PATH_in, <<>>),
      Body(STR_null, Num(10), PATH_in, <<>>),
      Body(B1, Num(MAX_CAPACITY + 1), PATH_in, <<>>),
      Body(B1, Num(-1), PATH_in, <<>>),
      Body(B1, NotANumber, PATH_in, <<>>),
      Body(B1, Num(10), <<"/","d","a","t","a","/",".",".","/","i","n">>, <<>>),
      Body(B1, Num(10), <<"/">>, <<>>),
      Body(B1, Num(10), PATH_in, <<"b","i","n","/","/","p",".","e","l","f">>) }

Bodies == ValidBodies \cup InvalidBodies

\* what the handler's validation decides, all checks together
BodyValid(body) ==
    /\ body.block_id # <<>> /\ ~Falsy(body.compute_capacity) /\ body.input_path # <<>>
    /\ validateJobId(body.block_id)
    /\ validateComputeCapacity(body.compute_capacity)
    /\ validatePath(body.input_path, "input")
    /\ (body.elf_path # <<>> => validatePath(body.elf_path, "elf"))

\* job ids of GET /api/job/:jobId : "job-1", "not-a-real-id!!"
JobIds ==
    { <<"j","o","b","-","1">>,
      <<"n","o","t","-","a","-","r","e","a","l","-","i","d","!","!">>,
      STR_undefined }

Keys == {"ip1", "ip2"}

ReqIds == {"r1"}

----------------------------------------------------------------------------
(* Bounds and timing *)

\* granularity of the clock and its horizon, in milliseconds
TickMs  == 5000
MaxTime == 100000

\* requests arrive up to this time
MaxArrivalTime == 5000

\* configuration used for the rate limiter (RATE_LIMIT_WINDOW_MS,
\* RATE_LIMIT_MAX_REQUESTS are read from the environment)
RATE_LIMIT_WINDOW_MS    == 10000
RATE_LIMIT_MAX_REQUESTS == 2

\* workers the coordinator may report
MaxWorkers == 1

GRPC_TIMEOUT_MS     == 30000
PRECHECK_TIMEOUT_MS == 5000
LAUNCH_TIMEOUT_MS   == 90000
ENDPOINT_TIMEOUT_MS == 95000

----------------------------------------------------------------------------
VARIABLES
    now,            \* Date.now()
    rateLimitMap,   \* rateLimitMap : key -> { count, resetTime }
    windowAdmits,   \* history: requests admitted for a key since its record was (re)set
    unswept,        \* history: the rate-limit table as it would be had no sweep ever run
    grpcClient,     \* TRUE when initGrpcClient succeeded
    activeJobs,     \* coordinator: block ids that have an active job
    req,            \* the HTTP requests being handled
    rpc,            \* one grpcCall followed event by event
    coordinator,    \* processes.coordinator : pid of the tracked child, 0 for null
    child,          \* the ChildProcess objects of spawned coordinators, by pid
    alive,          \* pids of the coordinator processes the OS is running
    nextPid,        \* the pid the OS gives to the next process
    binaryFound,    \* findCoordinatorBinary() finds a binary
    op,             \* the supervisor requests being handled
    stopped,        \* history: pids a stop request has reported stopped
    workers,        \* processes.workers : worker id -> pid of its child, 0 when absent
    wchild,         \* the ChildProcess objects of spawned workers, by pid
    walive,         \* pids of the worker processes the OS is running
    wnextPid,       \* the pid the OS gives to the next worker process
    wop,            \* the worker requests being handled
    probe,          \* the last call of validatePath or sanitizeError with its result
    poller,         \* the dashboard's coordinator poller (useDashboard)
    insp            \* one OS process-inspection query followed event by event

rateVars   == <<rateLimitMap, windowAdmits, unswept>>
launchVars == <<grpcClient, activeJobs, req>>
callVars   == <<rpc>>
workVars   == <<workers, wchild, walive, wnextPid, wop>>
auxVars    == <<probe, poller, insp>>
procVars   == <<coordinator, child, alive, nextPid, binaryFound, op, stopped, workVars,
               auxVars>>

----------------------------------------------------------------------------
(* Rate limiter *)

NoRecord == [count |-> 0, resetTime |-> -1]

Record(count, resetTime) == [count |-> count, resetTime |-> resetTime]

\* variant: the limit is compared with > instead of >=
rateLimit_OffByOne(map, key, t) ==
    IF map[key] = NoRecord
    THEN [map  |-> [map EXCEPT ![key] = Record(1, t + RATE_LIMIT_WINDOW_MS)],
          next |-> TRUE, fresh |-> TRUE]
    ELSE IF t > map[key].resetTime
    THEN [map  |-> [map EXCEPT ![key] = Record(1, t + RATE_LIMIT_WINDOW_MS)],
          next |-> TRUE, fresh |-> TRUE]
    ELSE IF map[key].count > RATE_LIMIT_MAX_REQUESTS
    THEN [map |-> map, next |-> FALSE, fresh |-> FALSE]
    ELSE [map  |-> [map EXCEPT ![key].count = @ + 1],
          next |-> TRUE, fresh |-> FALSE]

\* rateLimit(req, res, next) for the client key at time t: the map afterwards
\* and whether next() was called (otherwise the response is 429)
rateLimit(map, key, t) ==
    IF map[key] = NoRecord
    THEN [map  |-> [map EXCEPT ![key] = Record(1, t + RATE_LIMIT_WINDOW_MS)],
          next |-> TRUE, fresh |-> TRUE]
    ELSE IF t > map[key].resetTime
    THEN [map  |-> [map EXCEPT ![key] = Record(1, t + RATE_LIMIT_WINDOW_MS)],
          next |-> TRUE, fresh |-> TRUE]
    ELSE IF map[key].count >= RATE_LIMIT_MAX_REQUESTS
    THEN [map |-> map, next |-> FALSE, fresh |-> FALSE]
    ELSE [map  |-> [map EXCEPT ![key].count = @ + 1],
          next |-> TRUE, fresh |-> FALSE]

\* the history variable after a decision of rateLimit
RateHistory(key, rl) ==
    windowAdmits' = [windowAdmits EXCEPT ![key] =
                        IF rl.fresh THEN 1 ELSE IF rl.next THEN @ + 1 ELSE @]

\* variant: the sweep also deletes a record at the very end of its window
Sweep_Early ==
    /\ \E k \in Keys : rateLimitMap[k] # NoRecord /\ now >= rateLimitMap[k].resetTime
    /\ rateLimitMap' = [k \in Keys |->
                          IF rateLimitMap[k] # NoRecord /\ now >= rateLimitMap[k].resetTime
                          THEN NoRecord ELSE rateLimitMap[k]]
    /\ windowAdmits' = [k \in Keys |->
                          IF rateLimitMap[k] # NoRecord /\ now >= rateLimitMap[k].resetTime
                          THEN 0 ELSE windowAdmits[k]]
    /\ UNCHANGED <<now, unswept, launchVars, callVars, procVars>>

\* the setInterval sweep: delete every record whose window has expired
Sweep ==
    /\ \E k \in Keys : rateLimitMap[k] # NoRecord /\ now > rateLimitMap[k].resetTime
    /\ rateLimitMap' = [k \in Keys |->
                          IF rateLimitMap[k] # NoRecord /\ now > rateLimitMap[k].resetTime
                          THEN NoRecord ELSE rateLimitMap[k]]
    /\ windowAdmits' = [k \in Keys |->
                          IF rateLimitMap[k] # NoRecord /\ now > rateLimitMap[k].resetTime
                          THEN 0 ELSE windowAdmits[k]]
    /\ UNCHANGED <<now, unswept, launchVars, callVars, procVars>>

----------------------------------------------------------------------------
(* HTTP requests and responses *)

Resp(total, idle, jobs, job_id, found) ==
    [total_workers |-> total, idle_workers |-> idle, jobs |-> jobs,
     job_id |-> job_id, found |-> found]

NoResp == Resp(0, 0, {}, <<>>, FALSE)

\* job id returned by the coordinator: "j1"
J1 == <<"j","1">>

NoCall == [method |-> "none", deadline |-> -1, timeoutMs |-> 0]

NoResponse == [sent |-> FALSE, status |-> 0, error |-> "", text |-> <<>>]

\* what the handler read from a SystemStatus response
NotSeen == [answered |-> FALSE, total_workers |-> 0, idle_workers |-> 0]

\* a request slot: pc is the await the handler is suspended at, timer the
\* expiry of endpointTimeout (-1: not pending); history: trace, the handler's
\* steps in order; seen, the worker counts it read; caught, the error its outer
\* catch received; dupActive, whether a job of its block id has been active
\* ever since it arrived
IdleReq ==
    [pc |-> "idle", kind |-> "none", key |-> "none",
     body |-> Body(<<>>, Missing, <<>>, <<>>),
     call |-> NoCall, timer |-> -1, res |-> NoResponse,
     trace |-> <<>>, seen |-> NotSeen, caught |-> NoError, dupActive |-> FALSE]

Log(q, step) == [q EXCEPT !.trace = Append(@, step)]

\* variant: sendError without the responseSent guard
sendError_Unguarded(q, error, text, statusCode) ==
    Log([q EXCEPT !.res = [sent |-> TRUE, status |-> statusCode,
                           error |-> error, text |-> text]], "respond")

\* res.status(statusCode).json(...), guarded by responseSent
sendError(q, error, text, statusCode) ==
    IF q.res.sent THEN q
    ELSE Log([q EXCEPT !.res = [sent |-> TRUE, status |-> statusCode,
                                error |-> error, text |-> text]], "respond")

sendResponse(q, statusCode) == sendError(q, "success", <<>>, statusCode)

clearEndpointTimeout(q) == [q EXCEPT !.timer = -1]

logAuditEvent(q, event) == Log(q, event)

\* the handler returns
Return(q) == [q EXCEPT !.pc = "done", !.call = NoCall]

\* clearTimeout; sendError; logAuditEvent('proof_launch_rejected'); return
Reject(q, error, statusCode) ==
    Return(logAuditEvent(sendError(clearEndpointTimeout(q), error, <<>>, statusCode),
                         "proof_launch_rejected"))

----------------------------------------------------------------------------
(* grpcCall: how a call settles *)

\* finish(error, response): reject(error) when there is an error, else resolve
finish(error, response) ==
    IF error # NoError
    THEN [ok |-> FALSE, error |-> error, response |-> NoResp]
    ELSE [ok |-> TRUE, error |-> NoError, response |-> response]

\* the 'status' listener acts on a status that is neither OK nor CANCELLED
StatusActs(status) == status.code # OK /\ status.code # CANCELLED

\* new Error(status.details || `gRPC call failed with code ${status.code}`)
StatusError(status) ==
    Err(NoCode, IF status.details # <<>> THEN status.details
                ELSE StatusCodeMessage(status.code))

\* new Error(`gRPC call ${method} timed out after ${timeoutMs}ms`)
TimeoutError(method, timeoutMs) == Err(NoCode, TimeoutMessage(method, timeoutMs))

\* grpcCall issues the call on the wire; the promise is pending
grpcCallStart(q, method, timeoutMs, t) ==
    Log([q EXCEPT !.pc = method,
                  !.call = [method |-> method, deadline |-> t + timeoutMs,
                            timeoutMs |-> timeoutMs]], method)

----------------------------------------------------------------------------
(* POST /api/proof/launch *)

\* the outer catch of the handler
LaunchFailed(q, error) ==
    LET sanitized == sanitizeError(error)
        q1 == logAuditEvent(clearEndpointTimeout([q EXCEPT !.caught = error]),
                            "proof_launch_failed")
    IN Return(
        IF \/ Includes(sanitized, STR_timed_out)
           \/ Includes(sanitized, STR_timeout)
           \/ error.code = DEADLINE_EXCEEDED
        THEN sendError(q1, "Launch proof request timed out after 90 seconds", <<>>, 504)
        ELSE IF Includes(sanitized, STR_CANCELLED) \/ error.code = CANCELLED
        THEN sendError(q1, "The coordinator cancelled the request", <<>>, 503)
        ELSE IF \/ Includes(sanitized, STR_No_workers_available)
                \/ Includes(sanitized, STR_insufficient)
        THEN sendError(q1, "No workers available or insufficient compute capacity",
                       <<>>, 503)
        ELSE IF Includes(sanitized, STR_not_found) \/ Includes(sanitized, STR_file)
        THEN sendError(q1, "File not found or invalid path", <<>>, 400)
        ELSE sendError(q1, "sanitized", sanitized, 500))

\* the code after `await grpcCall('LaunchProof', ...)`
LaunchSucceeded(q, response) ==
    LET q1 == clearEndpointTimeout(q)
    IN IF response.job_id = <<>>
       THEN Return(sendError(q1, "Coordinator returned empty job_id", <<>>, 500))
       ELSE Return(sendResponse(logAuditEvent(q1, "proof_launch_success"), 200))

\* logAuditEvent('proof_launch_initiated'); await grpcCall('LaunchProof', ..., 90000)
StartLaunchProof(q, t) ==
    LET q1 == logAuditEvent(q, "proof_launch_initiated")
    IN IF grpcClient
       THEN grpcCallStart(q1, "LaunchProof", LAUNCH_TIMEOUT_MS, t)
       ELSE LaunchFailed(q1, Err(NoCode, MSG_ClientNotInitialized))

\* variant: no job is ever taken for a duplicate
duplicateBlockId_Never(jobs, block_id) == FALSE

\* jobs.find(job => jobBlockId === block_id)
duplicateBlockId(jobs, block_id) == block_id \in jobs

\* variant: the guard also rejects while another request has a LaunchProof call
\* for the block id in flight
AfterJobsList_Reserving(q, settled, t) ==
    IF \/ settled.ok /\ duplicateBlockId(settled.response.jobs, q.body.block_id)
       \/ \E r \in DOMAIN req : /\ req[r].pc = "LaunchProof"
                                 /\ req[r].body.block_id = q.body.block_id
    THEN Reject(q, "A proof job with this block_id is already running", 409)
    ELSE StartLaunchProof(q, t)

\* the code after `await grpcCall('JobsList', ...)`, with catch (checkError)
AfterJobsList(q, settled, t) ==
    IF settled.ok /\ duplicateBlockId(settled.response.jobs, q.body.block_id)
    THEN Reject(q, "A proof job with this block_id is already running", 409)
    ELSE StartLaunchProof(q, t)

StartJobsList(q, t) ==
    IF grpcClient
    THEN grpcCallStart(q, "JobsList", PRECHECK_TIMEOUT_MS, t)
    ELSE StartLaunchProof(q, t)

\* variant: only total_workers is looked at
AfterSystemStatus_NoIdleCheck(q, settled, t) ==
    IF ~settled.ok THEN StartLaunchProof(q, t)
    ELSE LET totalWorkers == settled.response.total_workers
             idleWorkers  == settled.response.idle_workers
             q1 == [q EXCEPT !.seen = [answered |-> TRUE,
                                       total_workers |-> totalWorkers,
                                       idle_workers |-> idleWorkers]]
         IN IF totalWorkers = 0
            THEN Reject(q1, "No workers are connected to the coordinator", 503)
            ELSE StartJobsList(q1, t)

\* the code after `await grpcCall('SystemStatus', ...)`, with catch (checkError)
AfterSystemStatus(q, settled, t) ==
    IF ~settled.ok THEN StartLaunchProof(q, t)
    ELSE LET totalWorkers == settled.response.total_workers
             idleWorkers  == settled.response.idle_workers
             q1 == [q EXCEPT !.seen = [answered |-> TRUE,
                                       total_workers |-> totalWorkers,
                                       idle_workers |-> idleWorkers]]
         IN IF totalWorkers = 0
            THEN Reject(q1, "No workers are connected to the coordinator", 503)
            ELSE IF idleWorkers = 0
            THEN Reject(q1, "All workers are currently busy", 503)
            ELSE StartJobsList(q1, t)

StartSystemStatus(q, t) ==
    IF grpcClient
    THEN grpcCallStart(q, "SystemStatus", PRECHECK_TIMEOUT_MS, t)
    ELSE StartLaunchProof(q, t)

\* variant: the handler goes to the pre-launch checks without validating
LaunchHandler_Unvalidated(q, t) ==
    StartSystemStatus([q EXCEPT !.timer = t + ENDPOINT_TIMEOUT_MS], t)

\* the handler up to its first await: endpointTimeout, then validation
LaunchHandler(q, t) ==
    LET q1   == Log([q EXCEPT !.timer = t + ENDPOINT_TIMEOUT_MS], "validate")
        body == q.body
    IN IF body.block_id = <<>> \/ Falsy(body.compute_capacity) \/ body.input_path = <<>>
       THEN Reject(q1, "Missing required fields", 400)
       ELSE IF ~validateJobId(body.block_id)
       THEN Reject(q1, "Invalid block_id", 400)
       ELSE IF ~validateComputeCapacity(body.compute_capacity)
       THEN Reject(q1, "Invalid compute capacity", 400)
       ELSE IF ~validatePath(body.input_path, "input")
       THEN Reject(q1, "Invalid input_path", 400)
       ELSE IF body.elf_path # <<>> /\ ~validatePath(body.elf_path, "elf")
       THEN Reject(q1, "Invalid elf_path", 400)
       ELSE StartSystemStatus(q1, t)

\* rateLimit answered 429: the handler does not run
RateLimited(q) ==
    Return(Log([q EXCEPT !.res = [sent |-> TRUE, status |-> 429,
                                  error |-> "Rate limit exceeded", text |-> <<>>]],
               "respond"))

----------------------------------------------------------------------------
(* GET /api/job/:jobId *)

Respond(q, error, text, statusCode) ==
    Return(Log([q EXCEPT !.res = [sent |-> TRUE, status |-> statusCode,
                                  error |-> error, text |-> text]], "respond"))

\* the code after `await grpcCall('JobStatus', ...)` and the catch
AfterJobStatus(q, settled) ==
    IF settled.ok
    THEN IF settled.response.found
         THEN Respond(q, "success", <<>>, 200)
         ELSE Respond(q, "Job not found", <<>>, 404)
    ELSE IF \/ settled.error.code = NOT_FOUND
            \/ Includes(settled.error.message, STR_not_found)
         THEN Respond(q, "Job not found", <<>>, 404)
         ELSE Respond(q, "sanitized", sanitizeError(settled.error), 500)

\* variant: the job id goes to the coordinator unchecked
JobHandler_Unvalidated(q, t) ==
    LET q1 == Log(q, "validate")
    IN IF grpcClient
       THEN grpcCallStart(q1, "JobStatus", GRPC_TIMEOUT_MS, t)
       ELSE AfterJobStatus(q1, finish(Err(NoCode, MSG_ClientNotInitialized), NoResp))

\* GET /api/job/:jobId up to its first await
JobHandler(q, t) ==
    LET q1 == Log(q, "validate")
    IN IF ~validateJobId(q.body.block_id)
       THEN Respond(q1, "Invalid job id", <<>>, 400)
       ELSE IF grpcClient
       THEN grpcCallStart(q1, "JobStatus", GRPC_TIMEOUT_MS, t)
       ELSE AfterJobStatus(q1, finish(Err(NoCode, MSG_ClientNotInitialized), NoResp))

----------------------------------------------------------------------------
(* grpcCall, event by event *)

\* methods of the client built from the proto file
ClientMethods == {"SystemStatus", "JobsList", "LaunchProof", "JobStatus"}

\* the calls the gateway makes: method and timeoutMs; "StatusInfo" stands for a
\* method the loaded proto does not define
CallSites ==
    { <<"SystemStatus", PRECHECK_TIMEOUT_MS>>, <<"JobsList", PRECHECK_TIMEOUT_MS>>,
      <<"LaunchProof", LAUNCH_TIMEOUT_MS>>, <<"JobStatus", GRPC_TIMEOUT_MS>>,
      <<"StatusInfo", GRPC_TIMEOUT_MS>> }

\* "Channel has been shut down" : an error thrown by grpcClient[method](...)
ERR_Thrown == Err(NoCode,
    <<"C","h","a","n","n","e","l"," ","h","a","s"," ","b","e","e","n"," ","s","h",
      "u","t"," ","d","o","w","n">>)

NoOutcome == [ok |-> FALSE, error |-> NoError, response |-> NoResp]

\* the closure of one grpcCall: timer is the deadline timer ("none", "armed",
\* "fired", "cleared"), onWire says that `call` is set, owed are the events the
\* transport has not delivered yet; history: settles counts the calls of
\* resolve/reject, outcome is what the promise settled with, settledBy the step
\* that settled it,
\* fired the events that fired so far, in order
IdleRpc ==
    [state |-> "idle", method |-> "none", timeoutMs |-> 0, deadline |-> -1,
     timer |-> "none", completed |-> FALSE, onWire |-> FALSE, cancels |-> 0,
     settles |-> 0, outcome |-> NoOutcome, settledBy |-> "none", fired |-> <<>>,
     owed |-> {}]

\* resolve(...) or reject(...): a promise keeps its first settlement
Settle(c, result, by) ==
    IF c.settles = 0
    THEN [c EXCEPT !.settles = 1, !.outcome = result, !.settledBy = by, !.state = "settled"]
    ELSE [c EXCEPT !.settles = @ + 1]

\* variant: cleanup leaves the deadline timer alone
cleanup_KeepsTimer(c, cancelCall) ==
    [c EXCEPT !.cancels = IF cancelCall /\ c.onWire /\ ~c.completed THEN @ + 1 ELSE @]

\* cleanup(cancelCall)
cleanup(c, cancelCall) ==
    [c EXCEPT !.timer = IF @ = "armed" THEN "cleared" ELSE @,
              !.cancels = IF cancelCall /\ c.onWire /\ ~c.completed THEN @ + 1 ELSE @]

\* const finish = (error, response) => { if (completed) return; ... }
finishCall(c, error, response, by) ==
    IF c.completed THEN c
    ELSE Settle(cleanup([c EXCEPT !.completed = TRUE], FALSE), finish(error, response), by)

\* an event fired
Fired(c, event, label) ==
    [c EXCEPT !.owed = @ \ {event}, !.fired = Append(@, label)]

\* how a 'status' event is entered in the history
StatusLabel(status) ==
    IF status.code = OK THEN "status OK"
    ELSE IF status.code = CANCELLED THEN "status CANCELLED"
    ELSE "status event"

\* (error, response) => { if (!completed) finish(error, response) }
onCallback(c, error, response) ==
    IF ~c.completed THEN finishCall(c, error, response, "callback") ELSE c

\* call.on('error', ...)
onError(c, error) ==
    IF ~c.completed THEN finishCall(c, error, NoResp, "error event") ELSE c

\* variant: the 'status' listener also acts on CANCELLED
onStatus_AnyNonOk(c, status) ==
    IF status.code # OK /\ ~c.completed
    THEN finishCall(c, StatusError(status), NoResp, "status event")
    ELSE c

\* call.on('status', ...)
onStatus(c, status) ==
    IF StatusActs(status) /\ ~c.completed
    THEN finishCall(c, StatusError(status), NoResp, "status event")
    ELSE c

\* variant: the setTimeout callback does not cancel the call
onDeadline_NoCancel(c) ==
    IF ~c.completed
    THEN finishCall(cleanup(c, FALSE), TimeoutError(c.method, c.timeoutMs), NoResp,
                    "deadline")
    ELSE c

\* the setTimeout callback
onDeadline(c) ==
    IF ~c.completed
    THEN finishCall(cleanup(c, TRUE), TimeoutError(c.method, c.timeoutMs), NoResp,
                    "deadline")
    ELSE c

\* grpcCall(method, request, timeoutMs) up to the return of the executor;
\* throws says whether grpcClient[method](...) throws
grpcCall(method, timeoutMs, throws, t) ==
    LET c0 == [IdleRpc EXCEPT !.state = "pending", !.method = method,
                              !.timeoutMs = timeoutMs]
    IN IF ~grpcClient
       THEN Settle(c0, finish(Err(NoCode, MSG_ClientNotInitialized), NoResp), "no client")
       ELSE LET c1 == [c0 EXCEPT !.timer = "armed", !.deadline = t + timeoutMs]
            IN IF method \notin ClientMethods
               THEN Settle(cleanup(c1, FALSE),
                           finish(Err(NoCode, NoSuchMethodMessage(method)), NoResp),
                           "no method")
               ELSE IF throws
               THEN finishCall(cleanup(c1, FALSE), ERR_Thrown, NoResp, "throw")
               ELSE [c1 EXCEPT !.onWire = TRUE,
                               !.owed = {"callback", "error event", "status event"}]

\* a handler calls grpcCall; the previous call, if any, has settled
GrpcCall(method, timeoutMs, throws) ==
    /\ rpc.state \in {"idle", "settled"}
    /\ rpc.timer # "armed"
    /\ rpc' = grpcCall(method, timeoutMs, throws, now)
    /\ UNCHANGED <<now, rateVars, launchVars, procVars>>

CallbackFires(error, response) ==
    /\ "callback" \in rpc.owed
    /\ rpc' = onCallback(Fired(rpc, "callback", "callback"), error, response)
    /\ UNCHANGED <<now, rateVars, launchVars, procVars>>

ErrorEventFires(error) ==
    /\ "error event" \in rpc.owed
    /\ rpc' = onError(Fired(rpc, "error event", "error event"), error)
    /\ UNCHANGED <<now, rateVars, launchVars, procVars>>

StatusEventFires(status) ==
    /\ "status event" \in rpc.owed
    /\ rpc' = onStatus(Fired(rpc, "status event", StatusLabel(status)), status)
    /\ UNCHANGED <<now, rateVars, launchVars, procVars>>

DeadlineFires ==
    /\ rpc.timer = "armed"
    /\ now >= rpc.deadline
    /\ rpc' = onDeadline(Fired([rpc EXCEPT !.timer = "fired"], "deadline", "deadline"))
    /\ UNCHANGED <<now, rateVars, launchVars, procVars>>

----------------------------------------------------------------------------
(* Process supervisor: the coordinator *)

\* pids the OS hands out
MaxPid == 2

Pids == 1..MaxPid

OpIds == {"o1", "o2"}

\* a ChildProcess object: killed is set by a successful kill(), exited when the
\* 'exit' event was emitted (exitCode !== null); exitPending: the process is gone
\* and the 'exit' event is queued
NoChild == [spawned |-> FALSE, killed |-> FALSE, exited |-> FALSE, exitPending |-> FALSE]

NoResult == [sent |-> FALSE, status |-> 0, error |-> "", running |-> FALSE,
             managed |-> FALSE, pid |-> 0]

\* a supervisor request: pc is the callback it waits for, pid the process it
\* spawned or signalled, cands the coordinator processes that existed while the
\* process listing it waits for was taken; history: sig, the signals it sent, in
\* order; saw, whether it found the managed handle alive; found, what the
\* inspection passed to its callback (-1: no inspection was made)
IdleOp == [kind |-> "none", pc |-> "idle", pid |-> 0, res |-> NoResult,
           cands |-> {}, sig |-> <<>>, saw |-> FALSE, found |-> -1]

\* processes.coordinator && !processes.coordinator.killed
\*   && processes.coordinator.exitCode === null
managedRunning ==
    /\ coordinator # 0
    /\ ~child[coordinator].killed
    /\ ~child[coordinator].exited

\* what findCoordinatorProcess can pass to its callback now: the pid of a
\* running coordinator process, or null (0) when none is listed, exec failed or
\* timed out
FindResults == alive \cup {0}

\* what the inspection started by the request can pass to its callback: the
\* listing was taken at some moment since it started
Listing(o) == op[o].cands \cup {0}

\* a coordinator process appears: listings being taken may report it
Born(ops, p) ==
    [o \in OpIds |-> IF ops[o].pc \in {"find", "recheck"}
                     THEN [ops[o] EXCEPT !.cands = @ \cup {p}]
                     ELSE ops[o]]

OpRespond(o, statusCode, error, running, managed, pid) ==
    [o EXCEPT !.pc = "done", !.cands = {},
              !.res = [sent |-> TRUE, status |-> statusCode, error |-> error,
                       running |-> running, managed |-> managed, pid |-> pid]]

OpFree(o) == op[o].pc \in {"idle", "done"}

procOther == <<now, rateVars, launchVars, callVars, workVars, auxVars>>

\* POST /api/coordinator/start up to `await findCoordinatorProcess`
StartArrive(o) ==
    /\ OpFree(o)
    /\ op' = [op EXCEPT ![o] =
                IF managedRunning
                THEN OpRespond([IdleOp EXCEPT !.kind = "start", !.saw = TRUE], 400,
                               "Coordinator is already running (managed by dashboard)",
                               FALSE, FALSE, 0)
                ELSE [IdleOp EXCEPT !.kind = "start", !.pc = "find", !.cands = alive]]
    /\ UNCHANGED <<coordinator, child, alive, nextPid, binaryFound, stopped, procOther>>

\* the external check resolved with a pid: 400
StartRejectExternal(o, found) ==
    /\ op[o].kind = "start" /\ op[o].pc = "find"
    /\ found \in Listing(o) /\ found # 0
    /\ op' = [op EXCEPT ![o] = OpRespond([@ EXCEPT !.found = found], 400,
                                         "Coordinator is already running externally",
                                         FALSE, FALSE, 0)]
    /\ UNCHANGED <<coordinator, child, alive, nextPid, binaryFound, stopped, procOther>>

\* the external check resolved with null and no binary is found: 500
StartNoBinary(o) ==
    /\ op[o].kind = "start" /\ op[o].pc = "find"
    /\ ~binaryFound
    /\ op' = [op EXCEPT ![o] = OpRespond([@ EXCEPT !.found = 0], 500,
                                         "zisk-coordinator binary not found",
                                         FALSE, FALSE, 0)]
    /\ UNCHANGED <<coordinator, child, alive, nextPid, binaryFound, stopped, procOther>>

\* the external check resolved with null: spawn, track the handle, register the
\* exit handler, then wait the grace period
StartSpawn(o) ==
    /\ op[o].kind = "start" /\ op[o].pc = "find"
    /\ binaryFound
    /\ nextPid <= MaxPid
    /\ alive' = alive \cup {nextPid}
    /\ child' = [child EXCEPT ![nextPid] = [NoChild EXCEPT !.spawned = TRUE]]
    /\ coordinator' = nextPid
    /\ nextPid' = nextPid + 1
    /\ op' = Born([op EXCEPT ![o].pc = "grace", ![o].pid = nextPid,
                             ![o].found = 0, ![o].cands = {}], nextPid)
    /\ UNCHANGED <<binaryFound, stopped, procOther>>

\* after the grace period: did the child exit at once?
StartGraceOver(o) ==
    /\ op[o].kind = "start" /\ op[o].pc = "grace"
    /\ op' = [op EXCEPT ![o] =
                IF child[op[o].pid].killed \/ child[op[o].pid].exited
                THEN OpRespond(@, 500, "Coordinator failed to start", FALSE, FALSE, 0)
                ELSE OpRespond(@, 200, "", TRUE, TRUE, op[o].pid)]
    /\ UNCHANGED <<coordinator, child, alive, nextPid, binaryFound, stopped, procOther>>

\* POST /api/coordinator/stop: the managed branch, or the start of the external one
StopArrive(o) ==
    /\ OpFree(o)
    /\ IF coordinator # 0
       THEN /\ child' = [child EXCEPT ![coordinator].killed =
                            @ \/ (~child[coordinator].exited
                                  /\ ~child[coordinator].exitPending)]
            /\ coordinator' = 0
            /\ stopped' = stopped \cup {coordinator}
            /\ op' = [op EXCEPT ![o] =
                        OpRespond([IdleOp EXCEPT !.kind = "stop", !.pid = coordinator,
                                                 !.saw = TRUE,
                                                 !.sig = <<<<"SIGTERM", coordinator>>>>],
                                  200, "", FALSE, FALSE, 0)]
       ELSE /\ op' = [op EXCEPT ![o] = [IdleOp EXCEPT !.kind = "stop", !.pc = "find",
                                                     !.cands = alive]]
            /\ UNCHANGED <<coordinator, child, stopped>>
    /\ UNCHANGED <<alive, nextPid, binaryFound, procOther>>

\* external stop: findCoordinatorProcess called back; process.kill(pid, 'SIGTERM')
\* throws when the process is gone
StopFound(o, found) ==
    /\ op[o].kind = "stop" /\ op[o].pc = "find"
    /\ found \in Listing(o)
    /\ op' = [op EXCEPT ![o] =
                IF found = 0
                THEN OpRespond([@ EXCEPT !.found = 0], 400,
                               "Coordinator is not running", FALSE, FALSE, 0)
                ELSE IF found \notin alive
                THEN OpRespond([@ EXCEPT !.found = found, !.pid = found], 500,
                               "Failed to stop coordinator", FALSE, FALSE, 0)
                ELSE [@ EXCEPT !.pc = "wait", !.pid = found, !.found = found,
                               !.cands = {},
                               !.sig = Append(@, <<"SIGTERM", found>>)]]
    /\ UNCHANGED <<coordinator, child, alive, nextPid, binaryFound, stopped, procOther>>

\* external stop: the 1500 ms timer fired, the process list is read again
StopWaitOver(o) ==
    /\ op[o].kind = "stop" /\ op[o].pc = "wait"
    /\ op' = [op EXCEPT ![o].pc = "recheck", ![o].cands = alive]
    /\ UNCHANGED <<coordinator, child, alive, nextPid, binaryFound, stopped, procOther>>

\* an 'exit' is queued for a spawned child whose process is gone
Reap(ch, pids) ==
    [p \in Pids |-> IF p \in pids /\ ch[p].spawned
                    THEN [ch[p] EXCEPT !.exitPending = TRUE] ELSE ch[p]]

\* variant: the forceful kill does not depend on the re-check
StillListed_Always(o, found) == TRUE

\* remainingPid === pid
StillListed(o, found) == found = op[o].pid

\* external stop: the re-check called back; SIGKILL when the pid is still
\* listed (a failing kill is caught and ignored)
StopRechecked(o, found) ==
    /\ op[o].kind = "stop" /\ op[o].pc = "recheck"
    /\ found \in Listing(o)
    /\ LET kill == StillListed(o, found)
       IN /\ op' = [op EXCEPT ![o] =
                      OpRespond([@ EXCEPT !.found = found,
                                          !.sig = IF kill
                                                  THEN Append(@, <<"SIGKILL", op[o].pid>>)
                                                  ELSE @],
                                200, "", FALSE, FALSE, 0)]
          /\ alive' = IF kill THEN alive \ {op[o].pid} ELSE alive
          /\ child' = IF kill THEN Reap(child, alive \cap {op[o].pid}) ELSE child
    /\ stopped' = stopped \cup {op[o].pid}
    /\ UNCHANGED <<coordinator, nextPid, binaryFound, procOther>>

\* GET /api/coordinator/process-status: answered from the handle, or the
\* process list is read
StatusArrive(o) ==
    /\ OpFree(o)
    /\ op' = [op EXCEPT ![o] =
                IF managedRunning
                THEN OpRespond([IdleOp EXCEPT !.kind = "status", !.saw = TRUE], 200, "",
                               TRUE, TRUE, coordinator)
                ELSE [IdleOp EXCEPT !.kind = "status", !.pc = "find", !.cands = alive]]
    /\ UNCHANGED <<coordinator, child, alive, nextPid, binaryFound, stopped, procOther>>

\* variant: a coordinator found in the process list is reported as managed
StatusFound_Managed(o, found) ==
    /\ op[o].kind = "status" /\ op[o].pc = "find"
    /\ found \in Listing(o)
    /\ op' = [op EXCEPT ![o] = OpRespond([@ EXCEPT !.found = found], 200, "",
                                         found # 0, found # 0, found)]
    /\ UNCHANGED <<coordinator, child, alive, nextPid, binaryFound, stopped, procOther>>

\* the process inspection of a status query called back
StatusFound(o, found) ==
    /\ op[o].kind = "status" /\ op[o].pc = "find"
    /\ found \in Listing(o)
    /\ op' = [op EXCEPT ![o] = OpRespond([@ EXCEPT !.found = found], 200, "",
                                         found # 0, FALSE, found)]
    /\ UNCHANGED <<coordinator, child, alive, nextPid, binaryFound, stopped, procOther>>

\* a coordinator process ends (a signal took effect, or it stopped by itself)
ProcessEnds(pid) ==
    /\ pid \in alive
    /\ alive' = alive \ {pid}
    /\ child' = Reap(child, {pid})
    /\ UNCHANGED <<coordinator, nextPid, binaryFound, op, stopped, procOther>>

\* coordinatorProcess.on('exit'): processes.coordinator = null
ExitEvent(pid) ==
    /\ child[pid].exitPending
    /\ child' = [child EXCEPT ![pid].exitPending = FALSE, ![pid].exited = TRUE]
    /\ coordinator' = 0
    /\ UNCHANGED <<alive, nextPid, binaryFound, op, stopped, procOther>>

\* somebody starts a coordinator outside the gateway
ExternalStart ==
    /\ nextPid <= MaxPid
    /\ alive' = alive \cup {nextPid}
    /\ nextPid' = nextPid + 1
    /\ op' = Born(op, nextPid)
    /\ UNCHANGED <<coordinator, child, binaryFound, stopped, procOther>>

NextProc ==
    \/ \E o \in OpIds : StartArrive(o)
    \/ \E o \in OpIds : \E found \in Pids \cup {0} : StartRejectExternal(o, found)
    \/ \E o \in OpIds : StartNoBinary(o)
    \/ \E o \in OpIds : StartSpawn(o)
    \/ \E o \in OpIds : StartGraceOver(o)
    \/ \E o \in OpIds : StopArrive(o)
    \/ \E o \in OpIds : \E found \in Pids \cup {0} : StopFound(o, found)
    \/ \E o \in OpIds : StopWaitOver(o)
    \/ \E o \in OpIds : \E found \in Pids \cup {0} : StopRechecked(o, found)
    \/ \E o \in OpIds : StatusArrive(o)
    \/ \E o \in OpIds : \E found \in Pids \cup {0} : StatusFound(o, found)
    \/ \E pid \in Pids : ProcessEnds(pid)
    \/ \E pid \in Pids : ExitEvent(pid)
    \/ ExternalStart

----------------------------------------------------------------------------
(* Process supervisor: the workers *)

\* pids the OS hands out to worker processes
MaxWPid == 2

WPids == 1..MaxWPid

WorkerIds == {"w1", "w2"}

WOpIds == {"q1"}

\* capacity passed when computeCapacity is not given
DefaultCapacity == 10

\* a worker ChildProcess object: id is the key its exit handler deletes
NoWorker == [spawned |-> FALSE, killed |-> FALSE, exited |-> FALSE,
             exitPending |-> FALSE, id |-> "none"]

\* the body of POST /api/worker/start: whether elfPath and inputPath are given,
\* and the computeCapacity value
WorkerBody(elfPath, inputPath, computeCapacity) ==
    [elfPath |-> elfPath, inputPath |-> inputPath, computeCapacity |-> computeCapacity]

WorkerBodies ==
    { WorkerBody(TRUE, TRUE, c) :
        c \in {Missing, Num(0), Num(5), Num(-1), Num(MAX_CAPACITY + 1), NotANumber} }
    \cup { WorkerBody(FALSE, TRUE, Missing), WorkerBody(TRUE, FALSE, Num(5)) }

\* what is on disk: the worker binary, the ELF file, the directory of the input
\* file and the input file
Disk(bin, elf, dir, file) == [bin |-> bin, elf |-> elf, dir |-> dir, file |-> file]

\* everything is there, one thing is missing, or two are
Disks ==
    { Disk(TRUE, TRUE, TRUE, TRUE), Disk(FALSE, TRUE, TRUE, TRUE),
      Disk(TRUE, FALSE, TRUE, TRUE), Disk(TRUE, TRUE, FALSE, FALSE),
      Disk(TRUE, TRUE, TRUE, FALSE), Disk(FALSE, FALSE, TRUE, TRUE),
      Disk(TRUE, FALSE, FALSE, FALSE) }

NoRejection == [status |-> 0, error |-> ""]

\* parseInt(computeCapacity, 10) is NaN
ParsesToNaN(capacity) == capacity.kind # "num"

\* variant: the ELF file is not looked for
WorkerRejection_NoElfCheck(body, disk) ==
    IF ~body.elfPath \/ ~body.inputPath
    THEN [status |-> 400, error |-> "ELF path and input path are required"]
    ELSE IF ~disk.bin
    THEN [status |-> 500, error |-> "zisk-worker binary not found"]
    ELSE IF ~disk.dir
    THEN [status |-> 400, error |-> "Input directory not found"]
    ELSE IF ~disk.file
    THEN [status |-> 400, error |-> "Input file not found"]
    ELSE IF /\ ~Falsy(body.computeCapacity)
            /\ (ParsesToNaN(body.computeCapacity) \/ body.computeCapacity.num < 1)
    THEN [status |-> 400, error |-> "Compute capacity must be a positive integer"]
    ELSE NoRejection

\* the checks of the start handler before spawn, in their order; error is the
\* message up to the path or the build hint that follows it
WorkerRejection(body, disk) ==
    IF ~body.elfPath \/ ~body.inputPath
    THEN [status |-> 400, error |-> "ELF path and input path are required"]
    ELSE IF ~disk.bin
    THEN [status |-> 500, error |-> "zisk-worker binary not found"]
    ELSE IF ~disk.elf
    THEN [status |-> 400, error |-> "ELF file not found"]
    ELSE IF ~disk.dir
    THEN [status |-> 400, error |-> "Input directory not found"]
    ELSE IF ~disk.file
    THEN [status |-> 400, error |-> "Input file not found"]
    ELSE IF /\ ~Falsy(body.computeCapacity)
            /\ (ParsesToNaN(body.computeCapacity) \/ body.computeCapacity.num < 1)
    THEN [status |-> 400, error |-> "Compute capacity must be a positive integer"]
    ELSE NoRejection

\* the --compute-capacity argument
WorkerCapacity(body) ==
    IF Falsy(body.computeCapacity) THEN DefaultCapacity ELSE body.computeCapacity.num

NoWorkerResult == [sent |-> FALSE, status |-> 0, error |-> "", workers |-> {},
                   coordinatorRunning |-> FALSE, pid |-> 0]

\* a worker request: pc is what it waits for, id and pid the worker it is about,
\* snap the entries of the map it is checking; history: of a start request
\* that spawned a worker, asked, its computeCapacity, and capacity, the
\* --compute-capacity argument (0: nothing was spawned); noElf, whether a start
\* request gave both paths and found the worker binary but not the ELF file;
\* tracked, the ids a status query found in the map
IdleWOp == [kind |-> "none", pc |-> "idle", id |-> "none", pid |-> 0,
            res |-> NoWorkerResult, snap |-> {}, asked |-> Missing, capacity |-> 0,
            noElf |-> FALSE, tracked |-> {}]

WOpRespond(o, statusCode, error, list, coordinatorRunning, pid) ==
    [o EXCEPT !.pc = "done", !.snap = {}, !.id = "none", !.pid = 0,
              !.res = [sent |-> TRUE, status |-> statusCode, error |-> error,
                       workers |-> list, coordinatorRunning |-> coordinatorRunning,
                       pid |-> pid]]

WOpFree(o) == wop[o].pc \in {"idle", "done"}

workOther == <<now, rateVars, launchVars, callVars, coordinator, child, alive,
               nextPid, binaryFound, op, stopped, auxVars>>

\* POST /api/worker/start up to the spawn: the checks, then the spawn, the
\* entry in the map and the grace timer
WorkerStartArrive(o, id, body, disk) ==
    /\ WOpFree(o)
    /\ LET rejection == WorkerRejection(body, disk)
           started   == [IdleWOp EXCEPT !.kind = "start", !.id = id,
                                        !.noElf = /\ body.elfPath /\ body.inputPath
                                                  /\ disk.bin /\ ~disk.elf]
       IN  IF rejection # NoRejection
           THEN /\ wop' = [wop EXCEPT ![o] =
                            WOpRespond(started, rejection.status, rejection.error,
                                       {}, FALSE, 0)]
                /\ UNCHANGED <<workers, wchild, walive, wnextPid>>
           ELSE /\ wnextPid <= MaxWPid
                /\ wchild' = [wchild EXCEPT ![wnextPid] =
                                [NoWorker EXCEPT !.spawned = TRUE, !.id = id]]
                /\ walive' = walive \cup {wnextPid}
                /\ workers' = [workers EXCEPT ![id] = wnextPid]
                /\ wop' = [wop EXCEPT ![o] =
                            [started EXCEPT !.pc = "grace", !.pid = wnextPid,
                                            !.asked = body.computeCapacity,
                                            !.capacity = WorkerCapacity(body)]]
                /\ wnextPid' = wnextPid + 1
    /\ UNCHANGED workOther

\* the 1000 ms grace timer of a worker start
WorkerStartGraceOver(o) ==
    /\ wop[o].kind = "start"
    /\ wop[o].pc = "grace"
    /\ LET pid == wop[o].pid
       IN  IF wchild[pid].killed \/ wchild[pid].exited
           THEN /\ workers' = [workers EXCEPT ![wop[o].id] = 0]
                /\ wop' = [wop EXCEPT ![o] =
                            WOpRespond(@, 500, "Worker failed to start. Check logs.",
                                       {}, FALSE, 0)]
           ELSE /\ workers' = workers
                /\ wop' = [wop EXCEPT ![o] = WOpRespond(@, 200, "", {}, FALSE, pid)]
    /\ UNCHANGED <<wchild, walive, wnextPid, workOther>>

\* POST /api/worker/stop
WorkerStop(o, id) ==
    /\ WOpFree(o)
    /\ LET stopping == [IdleWOp EXCEPT !.kind = "stop", !.id = id,
                                       !.pid = workers[id]]
       IN  IF workers[id] = 0
           THEN /\ wop' = [wop EXCEPT ![o] =
                            WOpRespond(stopping, 404, "Worker not found", {}, FALSE, 0)]
                /\ UNCHANGED <<workers, wchild>>
           ELSE /\ wchild' = [wchild EXCEPT ![workers[id]].killed =
                                @ \/ (workers[id] \in walive)]
                /\ workers' = [workers EXCEPT ![id] = 0]
                /\ wop' = [wop EXCEPT ![o] =
                            WOpRespond(stopping, 200, "", {}, FALSE, 0)]
    /\ UNCHANGED <<walive, wnextPid, workOther>>

\* a worker process ends (killed, crashed or finished); its exit event is queued
WorkerEnds(pid) ==
    /\ pid \in walive
    /\ walive' = walive \ {pid}
    /\ wchild' = [wchild EXCEPT ![pid].exitPending = TRUE]
    /\ UNCHANGED <<workers, wnextPid, wop, workOther>>

\* the exit handler of a worker: deletes the entry of its id
WorkerExitEvent(pid) ==
    /\ pid \in WPids
    /\ wchild[pid].exitPending
    /\ wchild' = [wchild EXCEPT ![pid].exitPending = FALSE, ![pid].exited = TRUE]
    /\ workers' = [workers EXCEPT ![wchild[pid].id] = 0]
    /\ UNCHANGED <<walive, wnextPid, wop, workOther>>

\* the entries of the map with the state of their handles
ManagedWorkers ==
    { [id |-> id, pid |-> workers[id],
       procStatus |-> ~wchild[workers[id]].killed /\ ~wchild[workers[id]].exited] :
        id \in {i \in WorkerIds : workers[i] # 0} }

\* GET /api/worker/process-status: a live managed coordinator handle is enough,
\* otherwise the process list is asked
WorkerStatusArrive(o) ==
    /\ WOpFree(o)
    /\ LET asking == [IdleWOp EXCEPT !.kind = "status"]
       IN  IF managedRunning
           THEN wop' = [wop EXCEPT ![o] =
                          [asking EXCEPT !.pc = "check", !.snap = ManagedWorkers,
                                         !.tracked = {e.id : e \in ManagedWorkers}]]
           ELSE wop' = [wop EXCEPT ![o] = [asking EXCEPT !.pc = "find"]]
    /\ UNCHANGED <<workers, wchild, walive, wnextPid, workOther>>

\* the answer of findCoordinatorProcess (2000 ms): a pid, or null when nothing is
\* listed, the listing fails or it times out
WorkerStatusCoordinator(o, found) ==
    /\ wop[o].kind = "status"
    /\ wop[o].pc = "find"
    /\ found \in FindResults
    /\ IF found = 0
       THEN /\ workers' = [id \in WorkerIds |-> 0]
            /\ wop' = [wop EXCEPT ![o] =
                        WOpRespond(@, 200, "", {}, FALSE, 0)]
       ELSE /\ workers' = workers
            /\ wop' = [wop EXCEPT ![o] =
                        [@ EXCEPT !.pc = "check", !.snap = ManagedWorkers,
                                  !.tracked = {e.id : e \in ManagedWorkers}]]
    /\ UNCHANGED <<wchild, walive, wnextPid, workOther>>

\* variant: a handle that is not marked killed or exited counts as running
RunningWorkers_FromHandle(snap, isRunning) ==
    { e \in snap : e.procStatus }

\* the entries reported as running, given the answers of isProcessRunning
RunningWorkers(snap, isRunning) ==
    { e \in snap : e.procStatus /\ e.id \in isRunning }

\* the answers of isProcessRunning (2000 ms each) have arrived: isRunning is the
\* set of ids whose process was confirmed; the others are deleted from the map
WorkerStatusChecked(o, isRunning) ==
    /\ wop[o].kind = "status"
    /\ wop[o].pc = "check"
    /\ isRunning \subseteq {e.id : e \in {x \in wop[o].snap : x.procStatus}}
    /\ \A e \in wop[o].snap : e.id \in isRunning => e.pid \in walive
    /\ LET running == RunningWorkers(wop[o].snap, isRunning)
           dropped == {e.id : e \in wop[o].snap \ running}
       IN  /\ workers' = [id \in WorkerIds |->
                            IF id \in dropped THEN 0 ELSE workers[id]]
           /\ wop' = [wop EXCEPT ![o] =
                        WOpRespond(@, 200, "",
                                   {[id |-> e.id, pid |-> e.pid] : e \in running},
                                   TRUE, 0)]
    /\ UNCHANGED <<wchild, walive, wnextPid, workOther>>

NextWork ==
    \/ \E o \in WOpIds, id \in WorkerIds, body \in WorkerBodies, disk \in Disks :
           WorkerStartArrive(o, id, body, disk)
    \/ \E o \in WOpIds : WorkerStartGraceOver(o)
    \/ \E o \in WOpIds, id \in WorkerIds : WorkerStop(o, id)
    \/ \E pid \in WPids : WorkerEnds(pid)
    \/ \E pid \in WPids : WorkerExitEvent(pid)
    \/ \E o \in WOpIds : WorkerStatusArrive(o)
    \/ \E o \in WOpIds, found \in Pids \cup {0} : WorkerStatusCoordinator(o, found)
    \/ \E o \in WOpIds, isRunning \in SUBSET WorkerIds : WorkerStatusChecked(o, isRunning)
    \/ ExternalStart
    \/ \E pid \in Pids : ProcessEnds(pid)
    \/ \E pid \in Pids : ExitEvent(pid)

----------------------------------------------------------------------------
(* Actions of the request handlers *)

vars == <<now, rateVars, launchVars, callVars, procVars>>

InFlight(r) == req[r].call # NoCall

\* responses the coordinator can give to the call in flight
Responses(method) ==
    CASE method = "SystemStatus" ->
           { Resp(total, idle, {}, <<>>, FALSE) :
               total \in 0..MaxWorkers, idle \in 0..MaxWorkers }
      [] method = "JobsList"     -> { Resp(0, 0, activeJobs, <<>>, FALSE) }
      [] method = "LaunchProof"  -> { Resp(0, 0, {}, <<>>, FALSE), Resp(0, 0, {}, J1, FALSE) }
      [] OTHER                   -> { Resp(0, 0, {}, <<>>, TRUE), Resp(0, 0, {}, <<>>, FALSE) }

\* the handler resumes after the awaited call settled
Continue(q, settled, t) ==
    CASE q.pc = "SystemStatus" -> AfterSystemStatus(q, settled, t)
      [] q.pc = "JobsList"     -> AfterJobsList(q, settled, t)
      [] q.pc = "LaunchProof"  -> IF settled.ok THEN LaunchSucceeded(q, settled.response)
                                  ELSE LaunchFailed(q, settled.error)
      [] OTHER                 -> AfterJobStatus(q, settled)

\* POST /api/proof/launch arrives: rateLimit, then the handler up to its first await
LaunchArrive(r, key, body) ==
    /\ req[r].pc \in {"idle", "done"}
    /\ LET rl == rateLimit(rateLimitMap, key, now)
           q  == [IdleReq EXCEPT !.kind = "launch", !.key = key, !.body = body,
                                 !.trace = <<"rateLimit">>,
                                 !.dupActive = body.block_id \in activeJobs]
       IN /\ rateLimitMap' = rl.map
          /\ RateHistory(key, rl)
          /\ unswept' = rateLimit(unswept, key, now).map
          /\ req' = [req EXCEPT ![r] = IF rl.next THEN LaunchHandler(q, now)
                                       ELSE RateLimited(q)]
    /\ UNCHANGED <<now, grpcClient, activeJobs, callVars, procVars>>

\* GET /api/job/:jobId arrives
JobArrive(r, jobId) ==
    /\ req[r].pc \in {"idle", "done"}
    /\ req' = [req EXCEPT ![r] =
                 JobHandler([IdleReq EXCEPT !.kind = "job", !.body.block_id = jobId], now)]
    /\ UNCHANGED <<now, rateVars, grpcClient, activeJobs, callVars, procVars>>

\* the unary callback of the call in flight fires with a response
RpcCallbackResponse(r, response) ==
    /\ InFlight(r)
    /\ response \in Responses(req[r].call.method)
    /\ req' = [req EXCEPT ![r] =
                 Continue(Log(req[r], "callback"), finish(NoError, response), now)]
    /\ activeJobs' = IF req[r].call.method = "LaunchProof" /\ response.job_id # <<>>
                     THEN activeJobs \cup {req[r].body.block_id}
                     ELSE activeJobs
    /\ UNCHANGED <<now, rateVars, grpcClient, callVars, procVars>>

\* the unary callback of the call in flight fires with an error
RpcCallbackError(r, error) ==
    /\ InFlight(r)
    /\ req' = [req EXCEPT ![r] =
                 Continue(Log(req[r], "callback error"), finish(error, NoResp), now)]
    /\ UNCHANGED <<now, rateVars, grpcClient, activeJobs, callVars, procVars>>

\* call.on('error')
RpcErrorEvent(r, error) ==
    /\ InFlight(r)
    /\ req' = [req EXCEPT ![r] =
                 Continue(Log(req[r], "error event"), finish(error, NoResp), now)]
    /\ UNCHANGED <<now, rateVars, grpcClient, activeJobs, callVars, procVars>>

\* call.on('status') with a status the listener acts on
RpcStatusEvent(r, status) ==
    /\ InFlight(r)
    /\ StatusActs(status)
    /\ req' = [req EXCEPT ![r] =
                 Continue(Log(req[r], "status event"),
                          finish(StatusError(status), NoResp), now)]
    /\ UNCHANGED <<now, rateVars, grpcClient, activeJobs, callVars, procVars>>

\* the deadline timer of grpcCall fires before the call settled
RpcDeadline(r) ==
    /\ InFlight(r)
    /\ now >= req[r].call.deadline
    /\ req' = [req EXCEPT ![r] =
                 Continue(Log(req[r], "deadline"),
                          finish(TimeoutError(req[r].call.method, req[r].call.timeoutMs),
                                 NoResp),
                          now)]
    /\ UNCHANGED <<now, rateVars, grpcClient, activeJobs, callVars, procVars>>

\* endpointTimeout fires: sendError(..., 504)
EndpointTimeout(r) ==
    /\ req[r].timer >= 0
    /\ now >= req[r].timer
    /\ req' = [req EXCEPT ![r] =
                 sendError([req[r] EXCEPT !.timer = -1],
                           "Launch proof request timed out", <<>>, 504)]
    /\ UNCHANGED <<now, rateVars, grpcClient, activeJobs, callVars, procVars>>

\* coordinator: the job of a block finishes
JobCompletes(b) ==
    /\ b \in activeJobs
    /\ activeJobs' = activeJobs \ {b}
    /\ req' = [r \in DOMAIN req |->
                 IF req[r].body.block_id = b THEN [req[r] EXCEPT !.dupActive = FALSE]
                 ELSE req[r]]
    /\ UNCHANGED <<now, rateVars, grpcClient, callVars, procVars>>

\* a timer that expired fires before the clock moves on
TimerDue ==
    \/ \E r \in DOMAIN req : \/ (InFlight(r) /\ now >= req[r].call.deadline)
                         \/ (req[r].timer >= 0 /\ now >= req[r].timer)
    \/ (rpc.timer = "armed" /\ now >= rpc.deadline)

Tick ==
    /\ ~TimerDue
    /\ now + TickMs <= MaxTime
    /\ now' = now + TickMs
    /\ UNCHANGED <<rateVars, launchVars, callVars, procVars>>

----------------------------------------------------------------------------
(* Calls of the validators and of sanitizeError on their own *)

auxOther == <<now, rateVars, launchVars, callVars, coordinator, child, alive,
              nextPid, binaryFound, op, stopped, workVars>>

\* c repeated n times
Rep(c, n) == [i \in 1..n |-> c]

\* "/"
PATH_root ==
    <<"/">>
\* "data/in.bin"
PATH_relative ==
    <<"d","a","t","a","/","i","n",".","b","i","n">>
\* "/data/../etc/passwd"
PATH_traversal ==
    <<"/","d","a","t","a","/",".",".","/","e","t","c","/","p","a","s","s","w","d">>
\* "/data//in.bin"
PATH_doubled ==
    <<"/","d","a","t","a","/","/","i","n",".","b","i","n">>
\* "/data/in bin"
PATH_space ==
    <<"/","d","a","t","a","/","i","n"," ","b","i","n">>
\* "/etc/passwd"
PATH_outside ==
    <<"/","e","t","c","/","p","a","s","s","w","d">>
\* "/data-old/in.bin"
PATH_sibling ==
    <<"/","d","a","t","a","-","o","l","d","/","i","n",".","b","i","n">>
\* "./in.bin"
PATH_dot ==
    <<".","/","i","n",".","b","i","n">>
\* "/opt/elf/prog.elf"
PATH_elf ==
    <<"/","o","p","t","/","e","l","f","/","p","r","o","g",".","e","l","f">>

\* the paths validatePath is called with; the last two have 512 and 513 characters
ProbePaths ==
    { <<>>, PATH_in, PATH_root, PATH_relative, PATH_traversal, PATH_doubled,
      PATH_space, PATH_outside, PATH_sibling, PATH_dot, PATH_elf,
      Rep("a", MaxPathLen), Rep("a", MaxPathLen + 1) }

\* "/data"
ROOT_data ==
    <<"/","d","a","t","a">>
\* "/data/"
ROOT_data_slash ==
    <<"/","d","a","t","a","/">>
\* "/srv"
ROOT_srv ==
    <<"/","s","r","v">>
\* "/opt/elf"
ROOT_elf ==
    <<"/","o","p","t","/","e","l","f">>

\* the values of ALLOWED_INPUT_PATHS validatePath is called under
AllowLists ==
    { NoAllowList, AllowList({ROOT_data}), AllowList({ROOT_data_slash}),
      AllowList({ROOT_srv, ROOT_elf}) }

\* the record of a call: of validatePath (allowed, path, kind, valid) or of
\* sanitizeError on two errors that differ in one fragment (debug, logged,
\* error, frag, text and other, otherFrag, otherText)
NoProbe ==
    [fn |-> "none", allowed |-> NoAllowList, path |-> <<>>, kind |-> "none",
     valid |-> FALSE, debug |-> FALSE, logged |-> FALSE,
     error |-> NoError, frag |-> <<>>, text |-> <<>>,
     other |-> NoError, otherFrag |-> <<>>, otherText |-> <<>>]

\* validatePath(pathValue, pathType) is called with ALLOWED_INPUT_PATHS = allowed
ValidatePathCalled(allowed, pathValue, pathType) ==
    /\ probe = NoProbe
    /\ probe' = [NoProbe EXCEPT !.fn = "validatePath", !.allowed = allowed,
                                !.path = pathValue, !.kind = pathType,
                                !.valid = validatePathUnder(allowed, pathValue, pathType)]
    /\ UNCHANGED <<poller, insp, auxOther>>

\* "10.0.0.5:50051"
HOST_remote ==
    <<"1","0",".","0",".","0",".","5",":","5","0","0","5","1">>
\* "coord.internal:50052"
HOST_named ==
    <<"c","o","o","r","d",".","i","n","t","e","r","n","a","l",":","5","0","0","5","2">>
\* "localhost:50051"
HOST_local ==
    <<"l","o","c","a","l","h","o","s","t",":","5","0","0","5","1">>
\* "127.0.0.1:50051"
HOST_loopback ==
    <<"1","2","7",".","0",".","0",".","1",":","5","0","0","5","1">>
\* "/home/zisk/build/prog.elf"
FILE_elf ==
    <<"/","h","o","m","e","/","z","i","s","k","/","b","u","i","l","d","/","p","r","o",
      "g",".","e","l","f">>
\* "/var/lib/zisk/in.bin"
FILE_input ==
    <<"/","v","a","r","/","l","i","b","/","z","i","s","k","/","i","n",".","b","i","n">>

\* host:port pairs and filesystem paths that occur in the errors of the client
HostPorts == { HOST_remote, HOST_named, HOST_local, HOST_loopback }
FsPaths   == { FILE_elf, FILE_input }

\* "connect ECONNREFUSED "
STR_connect ==
    <<"c","o","n","n","e","c","t"," ","E","C","O","N","N","R","E","F","U","S","E","D",
      " ">>
\* "ENOENT: no such file or directory, open "
STR_enoent ==
    <<"E","N","O","E","N","T",":"," ","n","o"," ","s","u","c","h"," ","f","i","l","e",
      " ","o","r"," ","d","i","r","e","c","t","o","r","y",","," ","o","p","e","n"," ">>
\* "cannot open "
STR_cannot_open ==
    <<"c","a","n","n","o","t"," ","o","p","e","n"," ">>
\* " failed"
STR_failed ==
    <<" ","f","a","i","l","e","d">>

\* the messages of the errors sanitizeError is called with, around a fragment
ErrorTemplates == { "connect", "enoent", "open", "long" }

ErrorMessage(template, frag) ==
    CASE template = "connect" -> STR_connect \o frag
      [] template = "enoent"  -> STR_enoent \o frag
      [] template = "open"    -> STR_cannot_open \o frag \o STR_failed
      [] OTHER                -> STR_cannot_open \o frag \o <<" ">>
                                    \o Rep("x", MaxMessageLen)

\* error.code of the errors sanitizeError is called with
ProbeCodes == { NoCode, INTERNAL, UNAVAILABLE }

\* sanitizeError(error) is called for a response, once with each of two errors
\* that differ only in the fragment; DEBUG is the debug flag of the gateway
SanitizeErrorCalled(debug, code, template, frag, otherFrag) ==
    /\ probe = NoProbe
    /\ probe' = [NoProbe EXCEPT
                    !.fn = "sanitizeError", !.debug = debug, !.logged = debug,
                    !.error = Err(code, ErrorMessage(template, frag)), !.frag = frag,
                    !.text = sanitizeError(Err(code, ErrorMessage(template, frag))),
                    !.other = Err(code, ErrorMessage(template, otherFrag)),
                    !.otherFrag = otherFrag,
                    !.otherText = sanitizeError(Err(code, ErrorMessage(template,
                                                                       otherFrag)))]
    /\ UNCHANGED <<poller, insp, auxOther>>

NextPure ==
    \/ \E allowed \in AllowLists, pathValue \in ProbePaths, pathType \in {"input", "elf"} :
           ValidatePathCalled(allowed, pathValue, pathType)
    \/ \E debug \in BOOLEAN, code \in ProbeCodes, template \in ErrorTemplates :
           \E frag \in HostPorts \cup FsPaths, otherFrag \in HostPorts \cup FsPaths :
               /\ (frag \in HostPorts) = (otherFrag \in HostPorts)
               /\ SanitizeErrorCalled(debug, code, template, frag, otherFrag)

----------------------------------------------------------------------------
(* The dashboard's coordinator poller (useDashboard) *)

POLL_INTERVAL_MS         == 1000
RECONNECT_INTERVAL_MS    == 10000
MAX_CONSECUTIVE_FAILURES == 3
INITIAL_BACKOFF_MS       == 1000
MAX_BACKOFF_MS           == 30000

\* polls are scheduled until this much delay has been scheduled in total
MaxPollTime == 90000

Min(a, b) == IF a <= b THEN a ELSE b

\* the refs of the hook: consecutiveFailures and currentBackoffMs; pc says
\* whether a poll is in progress or the timer of the next one is pending;
\* history: nextInterval is the delay scheduled after the last poll, before the
\* delay that getPollInterval gave when that poll began, last its outcome,
\* elapsed the sum of the delays scheduled so far
IdlePoller ==
    [pc |-> "timer", consecutiveFailures |-> 0, currentBackoffMs |-> INITIAL_BACKOFF_MS,
     nextInterval |-> 0, before |-> 0, last |-> "none", elapsed |-> 0]

\* getPollInterval()
getPollInterval(p) ==
    IF p.consecutiveFailures >= MAX_CONSECUTIVE_FAILURES THEN RECONNECT_INTERVAL_MS
    ELSE IF p.currentBackoffMs # 0 THEN p.currentBackoffMs
    ELSE POLL_INTERVAL_MS

\* pollCoordinator(): the end of the try block
pollSucceeded(p) ==
    [p EXCEPT !.consecutiveFailures = 0, !.currentBackoffMs = INITIAL_BACKOFF_MS]

\* pollCoordinator(): the catch block for an error other than AbortError
pollFailed(p) ==
    LET failures == p.consecutiveFailures + 1
    IN [p EXCEPT !.consecutiveFailures = failures,
                 !.currentBackoffMs =
                     IF failures >= MAX_CONSECUTIVE_FAILURES
                     THEN Min(p.currentBackoffMs * 2, MAX_BACKOFF_MS)
                     ELSE Min(INITIAL_BACKOFF_MS * (failures + 1), MAX_BACKOFF_MS)]

\* scheduleNextPoll() after the awaited poll: setTimeout(..., getPollInterval())
scheduleNextPoll(p, outcome) ==
    [p EXCEPT !.pc = "timer", !.last = outcome,
              !.nextInterval = getPollInterval(p),
              !.elapsed = @ + getPollInterval(p)]

\* the timer of scheduleNextPoll fires (at once after mount): a poll begins
PollBegins ==
    /\ poller.pc = "timer"
    /\ poller.elapsed <= MaxPollTime
    /\ poller' = [poller EXCEPT !.pc = "polling", !.before = getPollInterval(poller)]
    /\ UNCHANGED <<probe, insp, auxOther>>

PollSucceeds ==
    /\ poller.pc = "polling"
    /\ poller' = scheduleNextPoll(pollSucceeded(poller), "success")
    /\ UNCHANGED <<probe, insp, auxOther>>

PollFails ==
    /\ poller.pc = "polling"
    /\ poller' = scheduleNextPoll(pollFailed(poller), "failure")
    /\ UNCHANGED <<probe, insp, auxOther>>

\* the request was aborted: the catch block returns at once
PollAborted ==
    /\ poller.pc = "polling"
    /\ poller' = scheduleNextPoll(poller, "aborted")
    /\ UNCHANGED <<probe, insp, auxOther>>

NextPoll == PollBegins \/ PollSucceeds \/ PollFails \/ PollAborted

----------------------------------------------------------------------------
(* OS process inspection: findCoordinatorProcess and isProcessRunning *)

\* the clock of an inspection advances in steps of this many milliseconds
InspTickMs == 500

\* exec is given { timeout: timeoutMs - 500 }
EXEC_MARGIN_MS == 500

\* the timeouts the handlers pass: 2000 ms, and the defaults 3000 and 5000 ms
InspTimeouts == {2000, 3000, 5000}

\* what the listing command gives: an exec error, no output, lines none of
\* which names a process, or a line that does
ExecOutputs == {"error", "empty", "other lines", "listed"}

\* the closure of one query: callbackInvoked, the timer behind timeoutId
\* ("none", "armed", "fired", "cleared"), owed the events of the child process
\* that have not been delivered, killed whether childProcess.kill() was
\* called; elapsed is the time since the query began; history: calls counts
\* the invocations of callback, found and pid are its last argument, by the
\* handler that invoked it, output what exec reported
IdleInsp ==
    [fn |-> "none", pc |-> "idle", timeoutMs |-> 0, elapsed |-> 0,
     callbackInvoked |-> FALSE, timer |-> "none", owed |-> {}, killed |-> FALSE,
     calls |-> 0, found |-> FALSE, pid |-> 0, by |-> "none", output |-> "none"]

\* callbackInvoked = true; ... callback(result)
invokeCallback(q, found, pid, by) ==
    [q EXCEPT !.callbackInvoked = TRUE, !.pc = "done", !.calls = @ + 1,
              !.found = found, !.pid = pid, !.by = by]

\* clearTimeout(timeoutId)
clearInspTimeout(q) ==
    [q EXCEPT !.timer = IF @ = "armed" THEN "cleared" ELSE @]

\* the setTimeout callback of a query
onInspTimeout(q) ==
    IF ~q.callbackInvoked
    THEN invokeCallback([q EXCEPT !.killed = TRUE], FALSE, 0, "timeout")
    ELSE q

\* variant: the exec callback does not look at callbackInvoked
onExec_Unguarded(q, output, pid) ==
    LET c == [clearInspTimeout(q) EXCEPT !.output = output]
    IN  IF output \in {"error", "empty"} THEN invokeCallback(c, FALSE, 0, "exec")
        ELSE IF c.fn = "isProcessRunning" THEN invokeCallback(c, TRUE, 0, "exec")
        ELSE IF output = "listed" THEN invokeCallback(c, TRUE, pid, "exec")
        ELSE invokeCallback(c, FALSE, 0, "exec")

\* the callback of exec: (error, stdout, stderr) => { ... }
onExec(q, output, pid) ==
    LET c == [clearInspTimeout(q) EXCEPT !.output = output]
    IN  IF c.callbackInvoked THEN c
        ELSE IF output \in {"error", "empty"} THEN invokeCallback(c, FALSE, 0, "exec")
        ELSE IF c.fn = "isProcessRunning" THEN invokeCallback(c, TRUE, 0, "exec")
        ELSE IF output = "listed" THEN invokeCallback(c, TRUE, pid, "exec")
        ELSE invokeCallback(c, FALSE, 0, "exec")

\* childProcess.on('error', ...)
onChildError(q) ==
    LET c == clearInspTimeout(q)
    IN  IF ~c.callbackInvoked THEN invokeCallback(c, FALSE, 0, "error event") ELSE c

\* a handler calls findCoordinatorProcess or isProcessRunning; spawnFails says
\* whether the child process will emit 'error'
InspectStart(fn, timeoutMs, spawnFails) ==
    /\ insp.pc \in {"idle", "done"}
    /\ insp.owed = {}
    /\ insp' = [IdleInsp EXCEPT !.fn = fn, !.pc = "pending", !.timeoutMs = timeoutMs,
                                !.timer = "armed",
                                !.owed = IF spawnFails THEN {"exec", "error"}
                                         ELSE {"exec"}]
    /\ UNCHANGED <<probe, poller, auxOther>>

\* time passes while the timer of the query is pending and not yet due
InspTick ==
    /\ insp.timer = "armed"
    /\ insp.elapsed < insp.timeoutMs
    /\ insp' = [insp EXCEPT !.elapsed = @ + InspTickMs]
    /\ UNCHANGED <<probe, poller, auxOther>>

\* the timer of the query fires
InspTimeoutFires ==
    /\ insp.timer = "armed"
    /\ insp.elapsed >= insp.timeoutMs
    /\ insp' = onInspTimeout([insp EXCEPT !.timer = "fired"])
    /\ UNCHANGED <<probe, poller, auxOther>>

\* exec calls back; a child that was killed, by exec's own timeout or by the
\* timeout handler, is reported as an error
ExecCallbackFires(output, pid) ==
    /\ "exec" \in insp.owed
    /\ (insp.killed \/ insp.elapsed >= insp.timeoutMs - EXEC_MARGIN_MS) => output = "error"
    /\ output = "listed" <=> pid # 0
    /\ insp' = onExec([insp EXCEPT !.owed = @ \ {"exec"}], output, pid)
    /\ UNCHANGED <<probe, poller, auxOther>>

\* the child process emits 'error'
ChildErrorFires ==
    /\ "error" \in insp.owed
    /\ insp' = onChildError([insp EXCEPT !.owed = @ \ {"error"}])
    /\ UNCHANGED <<probe, poller, auxOther>>

NextInspect ==
    \/ \E fn \in {"findCoordinatorProcess", "isProcessRunning"},
          timeoutMs \in InspTimeouts, spawnFails \in BOOLEAN :
           InspectStart(fn, timeoutMs, spawnFails)
    \/ InspTick
    \/ InspTimeoutFires
    \/ \E output \in ExecOutputs, pid \in Pids \cup {0} : ExecCallbackFires(output, pid)
    \/ ChildErrorFires

\* the gateway after startup, before any request: everything but the requests
StartedState ==
    /\ now = 0
    /\ rateLimitMap = [k \in Keys |-> NoRecord]
    /\ windowAdmits = [k \in Keys |-> 0]
    /\ unswept = [k \in Keys |-> NoRecord]
    /\ probe = NoProbe
    /\ poller = IdlePoller
    /\ insp = IdleInsp
    /\ activeJobs = {}
    /\ rpc = IdleRpc
    /\ coordinator = 0
    /\ child = [p \in Pids |-> NoChild]
    /\ alive = {}
    /\ nextPid = 1
    /\ op = [o \in OpIds |-> IdleOp]
    /\ stopped = {}
    /\ workers = [id \in WorkerIds |-> 0]
    /\ wchild = [p \in WPids |-> NoWorker]
    /\ walive = {}
    /\ wnextPid = 1
    /\ wop = [o \in WOpIds |-> IdleWOp]

Started ==
    /\ StartedState
    /\ req = [r \in ReqIds |-> IdleReq]

\* initGrpcClient() succeeded or failed
Init ==
    /\ Started
    /\ grpcClient \in BOOLEAN
    /\ binaryFound = TRUE

InitRate ==
    /\ Started
    /\ grpcClient = TRUE
    /\ binaryFound = TRUE

\* the coordinator binary is installed or not
InitProc ==
    /\ Started
    /\ grpcClient = TRUE
    /\ binaryFound \in BOOLEAN

\* something reads the clock later on: a request may still arrive, a timer is
\* pending, or a rate-limit window is open
ClockObserved ==
    \/ now < MaxArrivalTime
    \/ \E r \in DOMAIN req : InFlight(r) \/ req[r].timer >= 0
    \/ rpc.timer = "armed"
    \/ \E k \in Keys : rateLimitMap[k] # NoRecord /\ now <= rateLimitMap[k].resetTime

Next ==
    \/ \E r \in ReqIds, body \in Bodies :
          now <= MaxArrivalTime /\ LaunchArrive(r, "ip1", body)
    \/ \E r \in ReqIds, jobId \in JobIds :
          now <= MaxArrivalTime /\ JobArrive(r, jobId)
    \/ \E r \in ReqIds : \E response \in Responses(req[r].call.method) :
          RpcCallbackResponse(r, response)
    \/ \E r \in ReqIds, error \in TransportErrors : RpcCallbackError(r, error)
    \/ \E r \in ReqIds, error \in TransportErrors : RpcErrorEvent(r, error)
    \/ \E r \in ReqIds, status \in TransportStatuses : RpcStatusEvent(r, status)
    \/ \E r \in ReqIds : RpcDeadline(r)
    \/ \E r \in ReqIds : EndpointTimeout(r)
    \/ \E b \in BlockIds : JobCompletes(b)
    \/ Sweep
    \/ ClockObserved /\ Tick

Spec == Init /\ [][Next]_vars

\* one grpcCall at a time, every event of it
NextCall ==
    \/ \E site \in CallSites, throws \in BOOLEAN :
          now <= MaxArrivalTime /\ GrpcCall(site[1], site[2], throws)
    \/ \E response \in Responses(rpc.method) : CallbackFires(NoError, response)
    \/ \E error \in TransportErrors : CallbackFires(error, NoResp)
    \/ \E error \in TransportErrors : ErrorEventFires(error)
    \/ \E status \in TransportStatuses : StatusEventFires(status)
    \/ DeadlineFires
    \/ ClockObserved /\ Tick

SpecCall == Init /\ [][NextCall]_vars

\* the rate limiter under requests of several clients; the requests fail
\* validation, so each is answered when it arrives
RateProbes == { Body(<<>>, Num(10), PATH_in, <<>>) }

NextRate ==
    \/ \E key \in Keys, body \in RateProbes : LaunchArrive("r1", key, body)
    \/ Sweep
    \/ Tick

SpecRate == InitRate /\ [][NextRate]_vars

\* validatePath and sanitizeError on their own: one call, with its result
SpecPure == InitRate /\ [][NextPure]_vars

\* the dashboard poller on its own
SpecPoll == InitRate /\ [][NextPoll]_vars

\* one process-inspection query at a time, every event of it
SpecInspect == InitRate /\ [][NextInspect]_vars

\* the same with the event loop running: time passes and a due timer fires
SpecInspectLive ==
    InitRate /\ [][NextInspect]_vars /\ WF_vars(InspTick) /\ WF_vars(InspTimeoutFires)

SpecProc == InitProc /\ [][NextProc]_vars

\* two launch requests of one client in flight at the same time
RaceIds == {"r1", "r2"}

InitRace ==
    /\ StartedState
    /\ req = [r \in RaceIds |-> IdleReq]
    /\ grpcClient = TRUE
    /\ binaryFound = TRUE

NextRace ==
    \/ \E r \in RaceIds, body \in ValidBodies : LaunchArrive(r, "ip1", body)
    \/ \E r \in RaceIds : \E response \in Responses(req[r].call.method) :
          RpcCallbackResponse(r, response)
    \/ \E r \in RaceIds : RpcCallbackError(r, ERR_Unavailable)
    \/ \E b \in BlockIds : JobCompletes(b)

SpecRace == InitRace /\ [][NextRace]_vars

\* before the first worker request a coordinator was started through the
\* gateway and is tracked: everything but the worker requests
WorkStarted ==
    /\ now = 0
    /\ rateLimitMap = [k \in Keys |-> NoRecord]
    /\ windowAdmits = [k \in Keys |-> 0]
    /\ unswept = [k \in Keys |-> NoRecord]
    /\ probe = NoProbe
    /\ poller = IdlePoller
    /\ insp = IdleInsp
    /\ activeJobs = {}
    /\ req = [r \in ReqIds |-> IdleReq]
    /\ rpc = IdleRpc
    /\ grpcClient = TRUE
    /\ binaryFound = TRUE
    /\ coordinator = 1
    /\ child = [p \in Pids |-> IF p = 1 THEN [NoChild EXCEPT !.spawned = TRUE]
                                         ELSE NoChild]
    /\ alive = {1}
    /\ nextPid = 2
    /\ op = [o \in OpIds |-> IdleOp]
    /\ stopped = {}
    /\ workers = [id \in WorkerIds |-> 0]
    /\ wchild = [p \in WPids |-> NoWorker]
    /\ walive = {}
    /\ wnextPid = 1

\* the worker supervisor, one request at a time
InitWork ==
    /\ WorkStarted
    /\ wop = [o \in WOpIds |-> IdleWOp]

SpecWork == InitWork /\ [][NextWork]_vars

\* two worker requests in flight at the same time, about one worker id
WRaceIds == {"q1", "q2"}

InitWorkRace ==
    /\ WorkStarted
    /\ wop = [o \in WRaceIds |-> IdleWOp]

NextWorkRace ==
    \/ \E o \in WRaceIds, body \in WorkerBodies, disk \in Disks :
           /\ WorkerRejection(body, disk) = NoRejection
           /\ body.computeCapacity = Missing
           /\ WorkerStartArrive(o, "w1", body, disk)
    \/ \E o \in WRaceIds : WorkerStartGraceOver(o)
    \/ \E o \in WRaceIds : WorkerStop(o, "w1")
    \/ \E pid \in WPids : WorkerEnds(pid)
    \/ \E pid \in WPids : WorkerExitEvent(pid)
    \/ \E o \in WRaceIds : WorkerStatusArrive(o)
    \/ \E o \in WRaceIds, isRunning \in SUBSET WorkerIds : WorkerStatusChecked(o, isRunning)

SpecWorkRace == InitWorkRace /\ [][NextWorkRace]_vars

----------------------------------------------------------------------------
(* Properties *)

\* position of the first occurrence of a step in a trace, 0 when it is absent
Pos(trace, step) ==
    IF \E i \in 1..Len(trace) : trace[i] = step
    THEN CHOOSE i \in 1..Len(trace) :
            trace[i] = step /\ \A j \in 1..(i - 1) : trace[j] # step
    ELSE 0

\* the request issued a call of the method
Issued(q, method) == Pos(q.trace, method) > 0

\* in the trace, step a is directly followed by one of the steps bs
Followed(trace, a, bs) ==
    \E i \in 1..(Len(trace) - 1) : trace[i] = a /\ trace[i + 1] \in bs

\* the ways a call fails
Failures == {"callback error", "error event", "status event", "deadline"}

\* the first of the events among evs that fired, "none" when none did
FirstOf(fired, evs) ==
    IF \E i \in 1..Len(fired) : fired[i] \in evs
    THEN fired[CHOOSE i \in 1..Len(fired) :
                  fired[i] \in evs /\ \A j \in 1..(i - 1) : fired[j] \notin evs]
    ELSE "none"

\* the events the 'status' listener does not ignore, and those with a non-OK status
ActingEvents == {"callback", "error event", "status event", "deadline"}
NonOkEvents  == ActingEvents \cup {"status CANCELLED"}

EventOf(label) == IF label = "status CANCELLED" THEN "status event" ELSE label

\* the outcome of the call is the one of the event that settled it
OutcomeOfEvent ==
    CASE rpc.settledBy = "deadline" ->
           rpc.outcome = finish(TimeoutError(rpc.method, rpc.timeoutMs), NoResp)
      [] rpc.settledBy = "status event" ->
           ~rpc.outcome.ok /\ rpc.outcome.error.code = NoCode
      [] rpc.settledBy = "error event" -> ~rpc.outcome.ok
      [] rpc.settledBy = "callback" ->
           rpc.outcome.ok <=> (rpc.outcome.error = NoError)
      [] OTHER -> FALSE

\* C1 as stated: every grpcCall settles exactly once with a success response, a
\* remote error or a timeout error, decided by whichever of the callback, the
\* 'error' event, a non-OK 'status' event or the deadline timer fires first
C1_FirstEventSettles ==
    rpc.onWire =>
        /\ rpc.settles <= 1
        /\ rpc.settles = 1 <=> FirstOf(rpc.fired, NonOkEvents) # "none"
        /\ rpc.settles = 1 => rpc.settledBy = EventOf(FirstOf(rpc.fired, NonOkEvents))

C1_SettledState ==
    /\ rpc.settles <= 1
    /\ rpc.state = "pending" =>
          rpc.onWire /\ rpc.settles = 0 /\ FirstOf(rpc.fired, ActingEvents) = "none"
    /\ rpc.state = "settled" =>
          /\ rpc.settles = 1
          /\ IF rpc.onWire
             THEN rpc.settledBy = FirstOf(rpc.fired, ActingEvents) /\ OutcomeOfEvent
             ELSE /\ rpc.settledBy \in {"no client", "no method", "throw"}
                  /\ ~rpc.outcome.ok
                  /\ rpc.fired = <<>>

C1_LateEvents ==
    (rpc.state = "settled" /\ Len(rpc'.fired) > Len(rpc.fired)) =>
        /\ rpc'.outcome = rpc.outcome
        /\ rpc'.settledBy = rpc.settledBy
        /\ rpc'.settles = rpc.settles

\* C1, amended: every grpcCall settles exactly once. A call that was not put on
\* the wire (no client, unknown method, the stub threw) is rejected with a local
\* error; a call on the wire is settled by the first event the wrapper acts on
\* (callback, 'error' event, 'status' event whose code is neither OK nor
\* CANCELLED, deadline timer), and an event firing afterwards changes nothing
C1_SettlesOnce == [](C1_SettledState) /\ [][C1_LateEvents]_vars

\* a CANCELLED status was ignored, the deadline settled the call, and the
\* callback fired afterwards
C1_Witness ==
    /\ rpc.state = "settled" /\ rpc.settles = 1 /\ rpc.settledBy = "deadline"
    /\ rpc.fired = <<"status CANCELLED", "deadline", "callback">>

Admitted(q) == q.kind = "launch" /\ q.res.status # 429 /\ BodyValid(q.body)

RequestStep(k) ==
    \/ req'["r1"] # req["r1"] /\ req'["r1"].key = k
    \/ rateLimitMap'[k] \notin {NoRecord, rateLimitMap[k]}

C4_Window ==
    \A k \in Keys :
        /\ windowAdmits[k] <= RATE_LIMIT_MAX_REQUESTS
        /\ rateLimitMap[k] = NoRecord => windowAdmits[k] = 0
        /\ rateLimitMap[k] # NoRecord =>
              /\ windowAdmits[k] = rateLimitMap[k].count
              /\ windowAdmits[k] >= 1

C4_Request ==
    \A k \in Keys :
        RequestStep(k) =>
            LET rec == rateLimitMap[k]
                rejected == req'["r1"].res.status = 429
            IN IF rec = NoRecord \/ now > rec.resetTime
               THEN /\ ~rejected
                    /\ rateLimitMap'[k] = Record(1, now + RATE_LIMIT_WINDOW_MS)
                    /\ windowAdmits'[k] = 1
               ELSE IF windowAdmits[k] >= RATE_LIMIT_MAX_REQUESTS
               THEN rejected /\ rateLimitMap'[k] = rec /\ windowAdmits'[k] = windowAdmits[k]
               ELSE /\ ~rejected
                    /\ rateLimitMap'[k] = Record(rec.count + 1, rec.resetTime)
                    /\ windowAdmits'[k] = windowAdmits[k] + 1

\* C4: for a key, in the window that starts at the request creating or
\* resetting its record, RATE_LIMIT_MAX_REQUESTS requests are admitted and every
\* further request up to the reset time is answered 429; the first request
\* after the reset time is admitted with count 1 and a new reset time
C4_RateLimitWindow == [](C4_Window) /\ [][C4_Request]_vars

\* a key used up its window and its next request was answered 429
C4_Witness ==
    \E k \in Keys :
        /\ rateLimitMap[k] # NoRecord /\ now <= rateLimitMap[k].resetTime
        /\ windowAdmits[k] = RATE_LIMIT_MAX_REQUESTS
        /\ req["r1"].key = k /\ req["r1"].res.status = 429

\* C5: when LaunchProof exceeds its deadline (the wrapper's timer fires, or the
\* transport reports DEADLINE_EXCEEDED) the launch response is 504 with the
\* checklist message
C5_DeadlineGives504 ==
    \A r \in ReqIds :
        ( /\ req[r].kind = "launch" /\ req[r].pc = "done"
          /\ \/ Followed(req[r].trace, "LaunchProof", {"deadline"})
             \/ /\ Issued(req[r], "LaunchProof")
                /\ req[r].caught.code = DEADLINE_EXCEEDED ) =>
            /\ req[r].res.status = 504
            /\ req[r].res.error = "Launch proof request timed out after 90 seconds"

\* C6: when the RPC calls of a launch fail with UNAVAILABLE the response is 503
C6_UnavailableGives503 ==
    \A r \in ReqIds :
        ( /\ req[r].kind = "launch" /\ req[r].pc = "done"
          /\ Issued(req[r], "LaunchProof")
          /\ req[r].caught.code = UNAVAILABLE ) =>
            req[r].res.status = 503

\* C7: when SystemStatus reports total_workers = 0 the launch is rejected with
\* 503 and the no-workers message; when it reports total_workers > 0 and
\* idle_workers = 0, with 503 and the all-busy message; no LaunchProof RPC is
\* issued in either case
C7_WorkerAvailability ==
    \A r \in ReqIds :
        (req[r].kind = "launch" /\ req[r].seen.answered) =>
            /\ req[r].seen.total_workers = 0 =>
                  /\ req[r].pc = "done" /\ req[r].res.status = 503
                  /\ req[r].res.error = "No workers are connected to the coordinator"
                  /\ ~Issued(req[r], "LaunchProof") /\ ~Issued(req[r], "JobsList")
            /\ (req[r].seen.total_workers > 0 /\ req[r].seen.idle_workers = 0) =>
                  /\ req[r].pc = "done" /\ req[r].res.status = 503
                  /\ req[r].res.error = "All workers are currently busy"
                  /\ ~Issued(req[r], "LaunchProof") /\ ~Issued(req[r], "JobsList")

\* SystemStatus reported workers, none of them idle, and the launch was rejected
C7_Witness ==
    \E r \in ReqIds :
        /\ req[r].seen.answered
        /\ req[r].seen.total_workers > 0 /\ req[r].seen.idle_workers = 0
        /\ req[r].res.status = 503
        /\ req[r].res.error = "All workers are currently busy"

\* the request fails the validation of its handler
FailsValidation(q) ==
    \/ q.kind = "job" /\ ~validateJobId(q.body.block_id)
    \/ q.kind = "launch" /\ ~BodyValid(q.body)

C9_SingleManagedCoordinator ==
    Cardinality({p \in alive : child[p].spawned}) <= 1

\* C10: a start request spawns nothing and is answered 400 whenever a managed
\* handle is tracked and alive or the process inspection finds a coordinator;
\* after a rejection for an external instance the handle is empty, and a status
\* query answered from the process list reports running with managed = false
C10_StartRejected ==
    [][\A o \in OpIds :
          /\ (op[o].kind = "start" /\ op[o].pc = "find" /\ op'[o].pc = "grace") =>
                ~managedRunning
          /\ (op[o].kind = "start" /\ op[o].pc = "find"
                /\ op'[o].res.error = "Coordinator is already running externally") =>
                /\ op'[o].res.status = 400
                /\ alive' = alive /\ nextPid' = nextPid
                /\ coordinator' = 0
          /\ (op[o].kind = "status" /\ op[o].pc = "find"
                /\ op'[o].pc = "done" /\ op'[o].res.pid # 0) =>
                op'[o].res.running /\ ~op'[o].res.managed]_vars

\* every SIGKILL a request sent is its second signal and follows a SIGTERM it
\* sent to the same pid
C11_Signals ==
    \A o \in OpIds : \A i \in 1..Len(op[o].sig) :
        op[o].sig[i][1] = "SIGKILL" =>
            /\ i = 2
            /\ op[o].sig[1] = <<"SIGTERM", op[o].sig[i][2]>>

\* a request sends a signal in this step
Signals(o) == Len(op'[o].sig) = Len(op[o].sig) + 1 /\ op[o].pc # "done"

C12_SecondStopNotRunning ==
    [][\A o \in OpIds :
          (/\ op[o].kind = "stop" /\ op[o].pc = "find" /\ op'[o].pc # "find"
           /\ op[o].cands \subseteq stopped) =>
              /\ op'[o].pc = "done"
              /\ op'[o].res.status = 400
              /\ op'[o].res.error = "Coordinator is not running"
              /\ op'[o].sig = <<>>]_vars

\* the audit events that record a decision on a launch request
AuditDecisions == {"proof_launch_rejected", "proof_launch_success", "proof_launch_failed"}

\* C13: when the response of a launch request is sent, an audit event recording
\* the decision has already been emitted for it
C13_AuditBeforeResponse ==
    \A r \in ReqIds :
        (req[r].kind = "launch" /\ req[r].res.sent) =>
            \E event \in AuditDecisions :
                /\ 0 < Pos(req[r].trace, event)
                /\ Pos(req[r].trace, event) < Pos(req[r].trace, "respond")

\* C14: when a start request answers success with pid P, P has not exited and
\* the tracked handle is the one of P and is alive, which is what a status
\* query arriving next answers from (running, managed, pid P)
C14_SuccessMeansTracked ==
    [][\A o \in OpIds :
          (/\ op[o].kind = "start" /\ op[o].pc = "grace"
           /\ op'[o].pc = "done" /\ op'[o].res.status = 200) =>
              /\ op'[o].res.pid = op[o].pid
              /\ ~child'[op[o].pid].exited
              /\ coordinator' = op[o].pid
              /\ managedRunning']_vars

\* what an answered status query reported against what it observed
C15_Report ==
    \A o \in OpIds :
        (op[o].kind = "status" /\ op[o].pc = "done") =>
            /\ op[o].res.managed <=> op[o].saw
            /\ op[o].res.running <=> (op[o].saw \/ op[o].found \in Pids)

\* C15: a status query reports running exactly when it finds the managed handle
\* alive (tracked, not killed, not exited) or its process inspection finds a
\* coordinator process, and managed exactly when it finds the handle alive
C15_StatusReport ==
    /\ [](C15_Report)
    /\ [][\A o \in OpIds :
            /\ (OpFree(o) /\ op'[o] # op[o] /\ op'[o].kind = "status") =>
                  IF managedRunning
                  THEN /\ op'[o].pc = "done" /\ op'[o].saw
                       /\ op'[o].res.running /\ op'[o].res.managed
                       /\ op'[o].res.pid = coordinator
                  ELSE op'[o].pc = "find" /\ ~op'[o].saw
            /\ (op[o].kind = "status" /\ op[o].pc = "find" /\ op'[o].pc = "done") =>
                  /\ ~op'[o].saw
                  /\ op'[o].found \in Listing(o)
                  /\ op'[o].res.pid = op'[o].found]_vars

\* a status query found no live handle and a coordinator process in the list
C15_Witness ==
    \E o \in OpIds :
        /\ op[o].kind = "status" /\ op[o].pc = "done"
        /\ op[o].found \in Pids
        /\ op[o].res.running /\ ~op[o].res.managed

\* the request passes the duplicate-job guard in this step
PassesGuard(r) == req[r].pc = "JobsList" /\ req'[r].pc = "LaunchProof"

\* C16: the duplicate-job guard is read-then-act: a request whose JobsList
\* answer does not hold its block id issues LaunchProof, whatever other requests
\* are in flight, passing the guard reserves nothing, and the guard answers 409
\* only for a block id in the list it read; so two requests for one block id
\* that both arrive while no active job carries it can both issue LaunchProof
C16_ReadThenAct ==
    [][\A r \in RaceIds :
          /\ PassesGuard(r) => activeJobs' = activeJobs
          /\ (req[r].pc = "JobsList" /\ req'[r].pc = "done"
                /\ req'[r].res.status = 409) =>
                req[r].body.block_id \in activeJobs
          /\ (req[r].pc = "JobsList" /\ req'[r].pc # "JobsList"
                /\ req[r].body.block_id \notin activeJobs) =>
                PassesGuard(r)]_vars

\* both requests carry the same block id, arrived while no active job carried
\* it, have passed the guard on an answered JobsList call and have their
\* LaunchProof call in flight
C16_Witness ==
    /\ req["r1"].body.block_id = req["r2"].body.block_id
    /\ \A r \in RaceIds :
          /\ req[r].kind = "launch" /\ req[r].pc = "LaunchProof"
          /\ ~req[r].dupActive
          /\ Followed(req[r].trace, "JobsList", {"callback"})
          /\ Issued(req[r], "LaunchProof")
    /\ req["r1"].body.block_id \notin activeJobs

\* a worker status query is answered in this step
WorkerStatusAnswered(o) ==
    wop[o].kind = "status" /\ wop[o].pc \in {"find", "check"} /\ wop'[o].pc = "done"

\* C17: a worker status query that finds the coordinator not running empties
\* the worker map and reports no workers with coordinatorRunning = false; while
\* a coordinator process is running it removes no handle of a live worker
C17_ClearsOnlyWithoutCoordinator ==
    [][\A o \in WOpIds :
          WorkerStatusAnswered(o) =>
              /\ ~wop'[o].res.coordinatorRunning =>
                    /\ workers' = [id \in WorkerIds |-> 0]
                    /\ wop'[o].res.workers = {}
              /\ alive # {} =>
                    \A id \in WorkerIds :
                        workers[id] \in walive => workers'[id] = workers[id]]_vars

\* the ids a worker status response lists
Reported(res) == {e.id : e \in res.workers}

\* C18 as stated: the response has one entry for every tracked worker handle
C18_EntryPerHandle ==
    [][\A o \in WOpIds :
          (wop[o].kind = "status" /\ wop[o].pc = "check" /\ wop'[o].pc = "done") =>
              Reported(wop'[o].res) = {e.id : e \in wop[o].snap}]_vars

\* C18: the response lists tracked worker handles only, and lists a handle
\* only if it is not marked killed or exited and the process check made during
\* the query found its pid alive; a tracked handle that fails either test is
\* left out of the response and removed from the map
C18_RunningEntriesOnly ==
    [][\A o \in WOpIds :
          (wop[o].kind = "status" /\ wop[o].pc = "check" /\ wop'[o].pc = "done") =>
              \A e \in wop[o].snap :
                  IF [id |-> e.id, pid |-> e.pid] \in wop'[o].res.workers
                  THEN e.procStatus /\ e.pid \in walive
                  ELSE /\ e.id \notin Reported(wop'[o].res)
                       /\ workers'[e.id] = 0]_vars
    /\ [](\A o \in WOpIds : Reported(wop[o].res) \subseteq wop[o].tracked)

\* a status query found a handle in the map and left it out of its response
C18_Witness ==
    \E o \in WOpIds :
        /\ wop[o].kind = "status" /\ wop[o].pc = "done"
        /\ wop[o].res.coordinatorRunning
        /\ wop[o].tracked \ Reported(wop[o].res) # {}

\* C19: a worker start request that spawned a worker passed capacity 10 when
\* computeCapacity was omitted, and otherwise passed the given value, which is
\* a positive integer no greater than MAX_CAPACITY
C19_CapacityBounded ==
    \A o \in WOpIds :
        (wop[o].kind = "start" /\ wop[o].capacity # 0) =>
            IF wop[o].asked = Missing
            THEN wop[o].capacity = DefaultCapacity
            ELSE /\ wop[o].asked.kind = "num"
                 /\ wop[o].asked.num \in 1..MAX_CAPACITY
                 /\ wop[o].capacity = wop[o].asked.num

\* with both paths given and the worker binary present, a missing ELF file is
\* what the request is rejected for
C20_ElfNotFound ==
    \A o \in WOpIds :
        (wop[o].kind = "start" /\ wop[o].noElf) =>
            /\ wop[o].pc = "done" /\ wop[o].capacity = 0
            /\ wop[o].res.status = 400 /\ wop[o].res.error = "ELF file not found"

\* the errors of the checks a worker start request makes before it spawns
WorkerRejections ==
    { "ELF path and input path are required", "zisk-worker binary not found",
      "ELF file not found", "Input directory not found", "Input file not found",
      "Compute capacity must be a positive integer" }

\* a worker start request is rejected in this step
WorkerStartRejected(o) ==
    /\ WOpFree(o) /\ wop'[o] # wop[o]
    /\ wop'[o].kind = "start" /\ wop'[o].pc = "done"

\* C20: a rejected worker start request spawns no process and leaves the worker
\* map as it was; it is rejected by one of the checks made before the spawn,
\* and when the worker binary exists and the ELF file does not, with 400 'ELF
\* file not found'
C20_RejectedStartSpawnsNothing ==
    /\ [](C20_ElfNotFound)
    /\ [][\A o \in WOpIds :
            WorkerStartRejected(o) =>
                /\ wop'[o].res.error \in WorkerRejections
                /\ wop'[o].res.status \in {400, 500}
                /\ wop'[o].capacity = 0
                /\ workers' = workers
                /\ wchild' = wchild /\ walive' = walive /\ wnextPid' = wnextPid]_vars

\* a start request was rejected for the missing ELF file while a worker is tracked
C20_Witness ==
    \E o \in WOpIds, id \in WorkerIds :
        /\ wop[o].kind = "start" /\ wop[o].pc = "done"
        /\ wop[o].noElf
        /\ wop[o].res.status = 400 /\ wop[o].res.error = "ELF file not found"
        /\ workers[id] # 0

\* the steps by which a grpcCall settles or is rejected
SettlePaths ==
    {"no client", "no method", "throw", "callback", "error event", "status event",
     "deadline"}

\* C26: after a grpcCall settled or was rejected, by whichever path, its
\* deadline timer is not pending; running cleanup again changes nothing more
C26_NoLiveTimerAfterSettle ==
    /\ rpc.state = "settled" =>
          /\ rpc.settledBy \in SettlePaths
          /\ rpc.timer # "armed"
          /\ rpc.settledBy # "no client" => rpc.timer \in {"cleared", "fired"}
    /\ cleanup(cleanup(rpc, FALSE), FALSE) = cleanup(rpc, FALSE)
    /\ cleanup(cleanup(rpc, TRUE), FALSE) = cleanup(rpc, TRUE)
    /\ cleanup(rpc, FALSE).timer # "armed"

\* a call was rejected by a synchronous throw of the client after its timer was armed
C26_Witness ==
    /\ rpc.state = "settled" /\ rpc.settledBy = "throw"
    /\ rpc.deadline > now /\ rpc.timer = "cleared"

\* the call in flight stays the same call in this step
SameCall ==
    /\ rpc.state # "idle"
    /\ Len(rpc'.fired) >= Len(rpc.fired)
    /\ SubSeq(rpc'.fired, 1, Len(rpc.fired)) = rpc.fired
    /\ rpc'.method = rpc.method /\ rpc'.deadline = rpc.deadline

\* C27: a call settled by its deadline timer was cancelled exactly once and
\* rejected with the timeout error that names its method and timeout; cancel is
\* invoked by no other step, and never on a call that has settled
C27_TimeoutCancelsOnce ==
    /\ [](/\ rpc.settledBy = "deadline" =>
                /\ rpc.cancels = 1
                /\ rpc.outcome = [ok |-> FALSE, response |-> NoResp,
                                  error |-> Err(NoCode, TimeoutMessage(rpc.method,
                                                                       rpc.timeoutMs))]
          /\ rpc.cancels > 0 => rpc.settledBy = "deadline"
          /\ rpc.cancels <= 1)
    /\ [][(rpc.completed /\ SameCall) => rpc'.cancels = rpc.cancels]_vars

\* the deadline of a call fired first, and another event of the call came after it
C27_Witness ==
    /\ rpc.settledBy = "deadline" /\ rpc.cancels = 1
    /\ Len(rpc.fired) >= 2 /\ rpc.fired[1] = "deadline"

\* how many responses the request has sent
Responses_Sent(r) ==
    Cardinality({ i \in 1..Len(req[r].trace) : req[r].trace[i] = "respond" })

\* the handler of the request has not returned, so that the slot holds the
\* same request after this step
SameRequest(r) ==
    /\ req[r].pc \notin {"idle", "done"}
    /\ Len(req'[r].trace) >= Len(req[r].trace)
    /\ SubSeq(req'[r].trace, 1, Len(req[r].trace)) = req[r].trace

\* the endpoint timer answered the request
AnsweredByTimer(r) ==
    /\ req[r].kind = "launch" /\ req[r].res.sent
    /\ req[r].res.status = 504 /\ req[r].res.error = "Launch proof request timed out"

\* C29: a launch request sends at most one response, has sent exactly one when
\* its handler has returned or its endpoint timer has fired, and sends nothing
\* more once a response is out: after the endpoint timer answered 504, the
\* results and errors of its calls leave the response as it is
C29_OneResponse ==
    /\ [](\A r \in ReqIds :
            req[r].kind = "launch" =>
                /\ Responses_Sent(r) <= 1
                /\ req[r].res.sent <=> Responses_Sent(r) = 1
                /\ req[r].pc = "done" => Responses_Sent(r) = 1
                /\ (req[r].timer = -1 /\ now >= ENDPOINT_TIMEOUT_MS) =>
                        Responses_Sent(r) = 1)
    /\ [][\A r \in ReqIds :
            (req[r].kind = "launch" /\ req[r].res.sent /\ SameRequest(r)) =>
                /\ req'[r].res = req[r].res
                /\ (AnsweredByTimer(r) /\ req'[r] # req[r]) =>
                        Cardinality({ i \in 1..Len(req'[r].trace) :
                                        req'[r].trace[i] = "respond" }) = 1]_vars

\* the endpoint timer answered 504 while LaunchProof was in flight, and the
\* handler has since resumed with the result of the call and returned
C29_Witness ==
    \E r \in ReqIds :
        /\ AnsweredByTimer(r)
        /\ req[r].pc = "done"
        /\ Pos(req[r].trace, "respond") < Len(req[r].trace)
        /\ Responses_Sent(r) = 1

\* C24: the exit event of a worker process leaves the handle of every other
\* process in the worker map as it was
C24_ExitRemovesOwnHandle ==
    [][\A p \in WPids :
          (~wchild[p].exited /\ wchild'[p].exited) =>
              \A id \in WorkerIds : workers[id] # p => workers'[id] = workers[id]]_vars

\* the process-status request got the answers of its liveness checks in this step
StatusCleanup(o) ==
    /\ wop[o].kind = "status" /\ wop[o].pc = "check"
    /\ wop'[o].pc = "done"

\* C25: the cleanup of a process-status request removes from the worker map
\* only handles of the processes whose liveness the request checked
C25_CleanupRemovesCheckedHandle ==
    [][\A o \in DOMAIN wop :
          StatusCleanup(o) =>
              \A id \in WorkerIds :
                  (workers[id] # 0 /\ workers'[id] = 0) =>
                      \E e \in wop[o].snap : e.id = id /\ e.pid = workers[id]]_vars

\* what the path is rejected for, as the contract of validatePath lists it
ListedRejection(allowed, p) ==
    \/ p = <<>>
    \/ Len(p) > MaxPathLen
    \/ Includes(p, STR_dotdot)
    \/ Includes(p, STR_slashslash)
    \/ \E i \in 1..Len(p) : p[i] \notin PathChars
    \/ /\ allowed.configured
       /\ ~\E root \in allowed.roots : StartsWith(resolve(p), resolve(root))

\* C21: validatePath rejects a path of either kind exactly when it is empty,
\* longer than 512 characters, contains '..' or '//', contains a character
\* outside [A-Za-z0-9/._-] or, with an allow-list configured, resolves to a
\* path that no allowed root is a prefix of
C21_RejectsIff ==
    probe.fn = "validatePath" =>
        (~probe.valid <=> ListedRejection(probe.allowed, probe.path))

\* C22: the text sanitizeError returns contains no host:port pair and no
\* filesystem path of the error, two errors that differ only in such a
\* fragment get the same text, and the raw error is logged only under DEBUG
C22_NoFragmentLeaks ==
    probe.fn = "sanitizeError" =>
        /\ ~Includes(probe.text, probe.frag)
        /\ ~Includes(probe.otherText, probe.otherFrag)
        /\ probe.text = probe.otherText
        /\ probe.logged => probe.debug

\* C23: after a failed poll the delay before the next poll is twice the delay
\* that preceded it, capped at 30 seconds, and after a successful poll it is
\* the 1-second base
C23_ExponentialBackoff ==
    poller.pc = "timer" =>
        /\ poller.last = "failure" =>
              poller.nextInterval = Min(2 * poller.before, MAX_BACKOFF_MS)
        /\ poller.last = "success" => poller.nextInterval = POLL_INTERVAL_MS

\* the window of the record of a key has expired
Expired(k) == rateLimitMap[k] # NoRecord /\ now > rateLimitMap[k].resetTime

\* the sweep ran in this step: records went away and no request was decided
SweepRan ==
    /\ rateLimitMap' # rateLimitMap
    /\ unswept' = unswept
    /\ now' = now

\* C28: the sweep deletes exactly the records whose window has expired and
\* leaves the others as they are; whenever a request arrives, the table that
\* is swept and the table that never was decide alike and leave the same record
C28_SweepUnobservable ==
    /\ [](\A k \in Keys :
            /\ rateLimit(rateLimitMap, k, now).next = rateLimit(unswept, k, now).next
            /\ rateLimit(rateLimitMap, k, now).map[k] = rateLimit(unswept, k, now).map[k]
            /\ rateLimitMap[k] # unswept[k] =>
                  /\ rateLimitMap[k] = NoRecord
                  /\ now > unswept[k].resetTime)
    /\ [][SweepRan =>
            \A k \in Keys :
                rateLimitMap'[k] = IF Expired(k) THEN NoRecord ELSE rateLimitMap[k]]_vars

\* the sweep deleted the record of a client that had used up its window, and
\* the client was admitted again afterwards
C28_Witness ==
    \E k \in Keys :
        /\ rateLimitMap[k] # NoRecord /\ rateLimitMap[k] = unswept[k]
        /\ \E j \in Keys : rateLimitMap[j] = NoRecord /\ unswept[j] # NoRecord
                             /\ unswept[j].count >= RATE_LIMIT_MAX_REQUESTS

\* C30: a process-inspection query invokes its callback at most once, has
\* invoked it exactly once when it is done, with what exec reported or with
\* 'not found' after an exec error, an 'error' event or its timeout; and a
\* query that is pending eventually invokes its callback
C30_CallbackExactlyOnce ==
    /\ [](/\ insp.calls <= 1
          /\ insp.pc = "done" <=> insp.calls = 1
          /\ insp.pc = "done" => insp.timer # "armed"
          /\ insp.by \in {"timeout", "error event"} => (~insp.found /\ insp.pid = 0)
          /\ insp.by = "exec" =>
                /\ insp.found <=>
                      \/ insp.output = "listed"
                      \/ insp.fn = "isProcessRunning" /\ insp.output = "other lines"
                /\ insp.pid # 0 => insp.fn = "findCoordinatorProcess")
    /\ (insp.pc = "pending") ~> (insp.calls = 1)

\* the timeout of a query answered 'not found', and the exec callback of the
\* killed child arrived afterwards
C30_Witness ==
    /\ insp.pc = "done" /\ insp.by = "timeout" /\ insp.calls = 1
    /\ insp.output = "error" /\ insp.owed = {}

====
